---- MODULE Spec2Model ----
(***************************************************************************)
(* Duolingo family league: the historical-delta XP engine                  *)
(* (src/src/duolingo_api.py) and the snapshot stores it reads              *)
(* (src/src/data_storage.py, sqlite_storage.py, gist_storage.py).          *)
(*                                                                         *)
(* Strings are sequences of one-character strings, Python dicts are        *)
(* functions (records) whose DOMAIN is the set of keys present, ordered    *)
(* dicts (the "results" of an entry) are sequences of <<key, value>>        *)
(* pairs in insertion order, and None is the empty tuple.                  *)
(***************************************************************************)
EXTENDS Integers, Sequences, FiniteSets, TLC

VARIABLES
    clock,                      \* the wall clock: the instant datetime.now() returns
    history,                    \* the history list handed to the delta functions
    username,                   \* the lookup username
    current_total_xp,           \* the account's current total XP
    current_language_progress,  \* the account's current language_progress dict
    reference,                  \* the reference_date a caller wants to supply (None: none)
    outcome,                    \* what the last call of the delta functions produced
    pc,                         \* "ready" before the call, "done" after it
    backend,                    \* the backend StorageFactory.create_storage built
    history_file,               \* DataStorage: league_history.json (<< >>: no file yet)
    daily_files,                \* DataStorage: the daily_<date>.json files
    daily_snapshots,            \* SQLiteStorage: rows of table daily_snapshots
    user_progress,              \* SQLiteStorage: rows of table user_progress
    language_progress,          \* SQLiteStorage: rows of table language_progress
    sqlite_sequence,            \* SQLiteStorage: the AUTOINCREMENT counter of each table
    gist_file,                  \* GistStorage: league_history.json in the remote gist
    history_cache,              \* GistStorage: self._history_cache
    patched,                    \* datetime is patched: now() returns one fixed instant
    fetches,                    \* GistStorage: the GET requests _fetch_gist has made
    call,                       \* the last call made on the store and how it ended
    saves,                      \* the last two save_daily_data calls: clock days read, results
    exported,                   \* StorageMigrator: the history migrated, the exported files
    request,                    \* make_api_request_with_retry: its loop and what it did
    pool                        \* check_all_family: the futures and the results map

deltaVars == << history, username, current_total_xp, current_language_progress,
                reference, outcome, pc >>

storeVars == << backend, patched, history_file, daily_files, daily_snapshots, user_progress,
                language_progress, sqlite_sequence, gist_file, history_cache, fetches,
                call, saves >>

sideVars == << exported, request, pool >>

vars == << clock, deltaVars, storeVars, sideVars >>

----------------------------------------------------------------------------
(* Bounds of the model *)

MaxXP == 2          \* XP values range over 0..MaxXP
MaxLen == 2         \* histories handed to the delta functions hold at most MaxLen entries
TicksPerDay == 2    \* instants of the wall clock per calendar day

None == << >>

Max(a, b) == IF a >= b THEN a ELSE b

----------------------------------------------------------------------------
(* Python built-ins the code relies on *)

UpperLetters == << "A", "B", "C", "D", "E", "F", "G", "H", "I", "J", "K", "L", "M",
                   "N", "O", "P", "Q", "R", "S", "T", "U", "V", "W", "X", "Y", "Z" >>
LowerLetters == << "a", "b", "c", "d", "e", "f", "g", "h", "i", "j", "k", "l", "m",
                   "n", "o", "p", "q", "r", "s", "t", "u", "v", "w", "x", "y", "z" >>

UpperSet == { UpperLetters[i] : i \in DOMAIN UpperLetters }
LowerOf ==
    [c \in UpperSet |-> LowerLetters[CHOOSE i \in DOMAIN UpperLetters : UpperLetters[i] = c]]

\* str.lower() on one character
LowerChar(c) == IF c \in UpperSet THEN LowerOf[c] ELSE c

\* str.lower()
Lower(s) == [i \in DOMAIN s |-> LowerChar(s[i])]

\* str.replace(" ", "_")
ReplaceSpaces(s) == [i \in DOMAIN s |-> IF s[i] = " " THEN "_" ELSE s[i]]

\* dict.get(key, default)
Get(d, key, default) == IF key \in DOMAIN d THEN d[key] ELSE default

\* The calendar: day n counts from Monday 2023-12-25, so that day 7 is Monday
\* 2024-01-01 and day 738 is Thursday 2026-01-01. strftime("%Y-%m-%d") gives the
\* zero-padded text, modelled by its three fields <<year, month, day>>; the model uses
\* the last week of 2023, January 2024 and January 2026.
FormatDate(n) ==
    IF n <= 6 THEN << 2023, 12, 25 + n >>
    ELSE IF n <= 37 THEN << 2024, 1, n - 6 >>
    ELSE << 2026, 1, n - 737 >>

\* Python's < on two "%Y-%m-%d" strings: fixed-width digits, so field by field
DateLT(a, b) ==
    \/ a[1] < b[1]
    \/ a[1] = b[1] /\ a[2] < b[2]
    \/ a[1] = b[1] /\ a[2] = b[2] /\ a[3] < b[3]

DateLE(a, b) == a = b \/ DateLT(a, b)

\* datetime.weekday(): Monday is 0
Weekday(n) == n % 7

\* the calendar day of an instant of the wall clock
DayOf(t) == t \div TicksPerDay

----------------------------------------------------------------------------
(* The account-matching rule shared by the four delta functions *)

\* faulty variant: the stored key is never consulted
UserMatchesNoKey(user_key, user_data, name) ==
    Lower(Get(user_data, "username", << >>)) = Lower(name)

UserMatches(user_key, user_data, name) ==
    \/ Lower(Get(user_data, "username", << >>)) = Lower(name)
    \/ ReplaceSpaces(Lower(user_key)) = Lower(name)

\* faulty variant: the loop does not break, the last matching record wins
FirstMatchLast(user_results, name) ==
    IF \E i \in DOMAIN user_results : UserMatches(user_results[i][1], user_results[i][2], name)
    THEN CHOOSE i \in DOMAIN user_results :
            /\ UserMatches(user_results[i][1], user_results[i][2], name)
            /\ \A j \in DOMAIN user_results :
                  UserMatches(user_results[j][1], user_results[j][2], name) => j <= i
    ELSE 0

\* the inner "for user_key, user_data in user_results.items(): if ...: ...; break":
\* the position of the first matching record, 0 when the loop ends without a match
FirstMatch(user_results, name) ==
    IF \E i \in DOMAIN user_results : UserMatches(user_results[i][1], user_results[i][2], name)
    THEN CHOOSE i \in DOMAIN user_results :
            /\ UserMatches(user_results[i][1], user_results[i][2], name)
            /\ \A j \in DOMAIN user_results :
                  UserMatches(user_results[j][1], user_results[j][2], name) => i <= j
    ELSE 0

\* week_start: the Monday at or before today, formatted
WeekStart(today) == FormatDate(today - Weekday(today))

\* yesterday, formatted
Yesterday(today) == FormatDate(today - 1)

----------------------------------------------------------------------------
(* calculate_weekly_xp and calculate_weekly_xp_per_language: the scan of the history *)

\* faulty variant: an entry dated on the Monday counts as before the week
WeekScanStepMondayBefore(acc, entry, name, week_start, field, default) ==
    LET entry_date == Get(entry, "date", None)
        user_results == Get(entry, "results", << >>)
        i == FirstMatch(user_results, name)
    IN  IF entry_date # None /\ DateLT(week_start, entry_date)
        THEN IF i # 0 /\ (acc.earliest = None \/ DateLT(entry_date, acc.earliest[1]))
             THEN [acc EXCEPT !.earliest =
                        << entry_date, Get(user_results[i][2], field, default) >>]
             ELSE acc
        ELSE IF entry_date # None /\ DateLE(entry_date, week_start)
        THEN IF i # 0 /\ (acc.start = None \/ DateLT(acc.start[1], entry_date))
             THEN [acc EXCEPT !.start =
                        << entry_date, Get(user_results[i][2], field, default) >>]
             ELSE acc
        ELSE acc

\* One iteration of "for entry in history": acc.start is week_start_xp, acc.earliest is
\* earliest_this_week_xp, each None or <<entry_date, value>>; field is "total_xp"
\* (default 0) in calculate_weekly_xp and "language_progress" (default {}) in
\* calculate_weekly_xp_per_language, whose loop is the same.
WeekScanStep(acc, entry, name, week_start, field, default) ==
    LET entry_date == Get(entry, "date", None)
        user_results == Get(entry, "results", << >>)
        i == FirstMatch(user_results, name)
    IN  IF entry_date # None /\ DateLE(week_start, entry_date)
        THEN \* this entry is from the current week
             IF i # 0 /\ (acc.earliest = None \/ DateLT(entry_date, acc.earliest[1]))
             THEN [acc EXCEPT !.earliest =
                        << entry_date, Get(user_results[i][2], field, default) >>]
             ELSE acc
        ELSE IF entry_date # None /\ DateLT(entry_date, week_start)
        THEN \* from before the week: the baseline if it is the most recent
             IF i # 0 /\ (acc.start = None \/ DateLT(acc.start[1], entry_date))
             THEN [acc EXCEPT !.start =
                        << entry_date, Get(user_results[i][2], field, default) >>]
             ELSE acc
        ELSE acc

RECURSIVE WeekScanFrom(_, _, _, _, _, _, _)
WeekScanFrom(acc, hist, k, name, week_start, field, default) ==
    IF k > Len(hist) THEN acc
    ELSE WeekScanFrom(WeekScanStep(acc, hist[k], name, week_start, field, default),
                      hist, k + 1, name, week_start, field, default)

WeekScan(hist, name, week_start, field, default) ==
    WeekScanFrom([start |-> None, earliest |-> None], hist, 1, name, week_start,
                 field, default)

\* faulty variant: the difference is not clamped at 0
WeeklyFromScanNoClamp(scan, cur) ==
    IF scan.start # None THEN cur - scan.start[2]
    ELSE IF scan.earliest # None THEN cur - scan.earliest[2]
    ELSE 0

\* faulty variant: with no baseline before the week the whole total is the gain
WeeklyFromScanFirstDayTotal(scan, cur) ==
    IF scan.start # None THEN Max(0, cur - scan.start[2])
    ELSE IF scan.earliest # None THEN cur
    ELSE 0

\* the value calculate_weekly_xp returns from the scan's result
WeeklyFromScan(scan, cur) ==
    IF scan.start # None
    THEN Max(0, cur - scan.start[2])
    ELSE IF scan.earliest # None
    THEN IF scan.earliest[2] = cur THEN 0 ELSE Max(0, cur - scan.earliest[2])
    ELSE 0

\* faulty variant: with no history the whole current total is the week's gain
calculate_weekly_xp_total_without_history(name, cur, hist, today) ==
    IF hist = << >> THEN cur
    ELSE WeeklyFromScan(WeekScan(hist, name, WeekStart(today), "total_xp", 0), cur)

\* calculate_weekly_xp(username, current_total_xp, history) when datetime.now() is on
\* day today; the history is given (not None)
calculate_weekly_xp(name, cur, hist, today) ==
    IF hist = << >> THEN 0
    ELSE WeeklyFromScan(WeekScan(hist, name, WeekStart(today), "total_xp", 0), cur)

\* faulty variant: a language the baseline does not hold is credited with nothing
PerLanguageAgainstKnownOnly(current_progress, baseline_languages) ==
    [lang \in DOMAIN current_progress |->
        IF lang \in DOMAIN baseline_languages
        THEN Max(0, Get(current_progress[lang], "xp", 0)
                    - Get(baseline_languages[lang], "xp", 0))
        ELSE 0]

\* the per-language deltas against a baseline language_progress dict; a language of
\* the current progress the first loop did not set is credited with its full xp
PerLanguageAgainst(current_progress, baseline_languages) ==
    [lang \in DOMAIN current_progress |->
        IF baseline_languages # << >>
        THEN Max(0, Get(current_progress[lang], "xp", 0)
                    - Get(Get(baseline_languages, lang, << >>), "xp", 0))
        ELSE Get(current_progress[lang], "xp", 0)]

calculate_weekly_xp_per_language(name, current_progress, hist, today) ==
    IF hist = << >> THEN << >>
    ELSE LET scan == WeekScan(hist, name, WeekStart(today), "language_progress", << >>)
             baseline_languages ==
                 IF scan.start # None THEN scan.start[2]
                 ELSE IF scan.earliest # None THEN scan.earliest[2]
                 ELSE None
         IN  PerLanguageAgainst(current_progress, baseline_languages)

----------------------------------------------------------------------------
(* calculate_daily_xp and calculate_daily_xp_per_language *)

\* "for entry in reversed(history)": the index of the first entry, from the most
\* recent, dated on or before yesterday that holds a matching record; 0 if none
DailyCandidates(hist, name, yesterday) ==
    { k \in DOMAIN hist :
        /\ Get(hist[k], "date", None) # None
        /\ DateLE(hist[k].date, yesterday)
        /\ FirstMatch(Get(hist[k], "results", << >>), name) # 0 }

\* faulty variant: the history is walked from the oldest entry
DailyBaselineIndexOldest(hist, name, yesterday) ==
    LET c == DailyCandidates(hist, name, yesterday)
    IN  IF c = {} THEN 0 ELSE CHOOSE k \in c : \A j \in c : k <= j

DailyBaselineIndex(hist, name, yesterday) ==
    LET c == DailyCandidates(hist, name, yesterday)
    IN  IF c = {} THEN 0 ELSE CHOOSE k \in c : \A j \in c : j <= k

\* the matching record of entry k
MatchedRecord(hist, k, name) ==
    LET user_results == Get(hist[k], "results", << >>)
    IN  user_results[FirstMatch(user_results, name)][2]

\* faulty variant: the daily_xp stored with the baseline snapshot is added to the gain
calculate_daily_xp_plus_stored(name, cur, hist, today) ==
    IF hist = << >> THEN 0
    ELSE LET k == DailyBaselineIndex(hist, name, Yesterday(today))
         IN  IF k # 0
             THEN Max(0, cur - Get(MatchedRecord(hist, k, name), "total_xp", 0))
                  + Get(MatchedRecord(hist, k, name), "daily_xp", 0)
             ELSE 0

calculate_daily_xp(name, cur, hist, today) ==
    IF hist = << >> THEN 0
    ELSE LET k == DailyBaselineIndex(hist, name, Yesterday(today))
         IN  IF k # 0
             THEN Max(0, cur - Get(MatchedRecord(hist, k, name), "total_xp", 0))
             ELSE 0

calculate_daily_xp_per_language(name, current_progress, hist, today) ==
    IF hist = << >> THEN << >>
    ELSE LET k == DailyBaselineIndex(hist, name, Yesterday(today))
             yesterday_languages ==
                 IF k # 0
                 THEN Get(MatchedRecord(hist, k, name), "language_progress", << >>)
                 ELSE None
         IN  [lang \in DOMAIN current_progress |->
                IF yesterday_languages # << >>
                THEN Max(0, Get(current_progress[lang], "xp", 0)
                            - Get(Get(yesterday_languages, lang, << >>), "xp", 0))
                ELSE 0]

----------------------------------------------------------------------------
(* The records get_user_progress builds and the stores keep *)

Langs == { "Spanish", "French" }

\* LanguageProgress(xp=..., from_language=..., learning_language=...)
LanguageProgress(lang, xp) ==
    [xp |-> xp, from_language |-> "en", learning_language |-> lang]

\* the success-shaped record; the derived fields are filled by the caller
UserProgress(name, total_xp, languages) ==
    [username |-> name, name |-> name, streak |-> 0, total_xp |-> total_xp,
     weekly_xp |-> 0, weekly_xp_per_language |-> << >>,
     daily_xp |-> 0, daily_xp_per_language |-> << >>,
     active_languages |-> DOMAIN languages,
     language_progress |-> languages, last_check |-> 0]

\* the error-shaped record: an error field and no total_xp
UserProgressError(name) ==
    [username |-> name, error |-> "User not found", last_check |-> 0,
     language_progress |-> << >>, weekly_xp_per_language |-> << >>,
     daily_xp_per_language |-> << >>, active_languages |-> {}]

RECURSIVE SumXP(_)
SumXP(languages) ==
    IF DOMAIN languages = {} THEN 0
    ELSE LET lang == CHOOSE l \in DOMAIN languages : TRUE
         IN  languages[lang].xp
             + SumXP([l \in DOMAIN languages \ { lang } |-> languages[l]])

\* the language_progress dicts of the model: only courses with xp > 0 are kept
LanguageProgressDicts ==
    UNION { { [l \in ls |-> LanguageProgress(l, f[l])] : f \in [ls -> 1..MaxXP] } :
            ls \in SUBSET Langs }

Ann == << "a", "n", "n" >>

\* the snapshots of one account: total XP is the sum of the courses' xp
Snapshots ==
    { UserProgress(Ann, SumXP(lp), lp) :
        lp \in { d \in LanguageProgressDicts : SumXP(d) <= MaxXP } }

\* what one history entry holds for the account: nothing, a snapshot or an error marker
EntryResults ==
    { << >> } \cup { << << Ann, r >> >> : r \in Snapshots \cup { UserProgressError(Ann) } }

\* the calendar days of the history entries: Saturday 2023-12-30, Sunday 2023-12-31,
\* Monday 2024-01-01 and Tuesday 2024-01-02; the wall clock is on the Monday or the
\* Tuesday
HistoryDays == { 5, 6, 7, 8 }
ClockDays == { 7, 8 }

AscendingDays(n) ==
    { ds \in [1..n -> HistoryDays] : \A i \in 1..(n - 1) : ds[i] < ds[i + 1] }

\* what load_history returns: entries in ascending order of date, one per date
Histories ==
    UNION { { [i \in 1..n |-> [date |-> FormatDate(ds[i]),
                               timestamp |-> ds[i] * TicksPerDay,
                               results |-> rs[i]]] :
                ds \in AscendingDays(n), rs \in [1..n -> EntryResults] } :
            n \in 0..MaxLen }

NoOutcome ==
    [raised |-> FALSE, weekly_xp |-> 0, weekly_xp_per_language |-> << >>,
     daily_xp |-> 0, daily_xp_per_language |-> << >>]

----------------------------------------------------------------------------
(* The snapshot stores: DataStorage, SQLiteStorage, GistStorage *)

MaxClock == 5       \* the wall clock runs over the instants 0..MaxClock
MaxSaves == 3       \* save_daily_data is called at most MaxSaves times
MaxFetches == 3     \* _fetch_gist is called at most MaxFetches times
MaxStored == 9      \* a store found at start-up holds at most MaxStored entries
MaxKeepDays == 1    \* cleanup_old_data is called with keep_days in 0..MaxKeepDays

\* StorageFactory.create_storage
Backends == { "json", "sqlite", "gist" }

Bob == << "B", "o", "b" >>

\* the results check_all_family hands to save_daily_data: one account fetched, or one
\* account failed and a second one fetched
ResultsA ==
    << << Ann, UserProgress(Ann, 1, [l \in { "Spanish" } |-> LanguageProgress(l, 1)]) >> >>
ResultsB ==
    << << Ann, UserProgressError(Ann) >>,
       << Bob, UserProgress(Bob, 2, [l \in Langs |-> LanguageProgress(l, 1)]) >> >>
StoreResults == { ResultsA, ResultsB }

\* results whose second record is success-shaped but lacks a required field
ResultsBroken ==
    << ResultsA[1],
       << Bob, [f \in DOMAIN UserProgress(Bob, 2, << >>) \ { "streak" } |->
                   UserProgress(Bob, 2, << >>)[f]] >> >>

\* sorted(history, key=lambda x: x["date"]): a stable sort, here by insertion
InsertByDate(sorted, entry) ==
    LET n == Cardinality({ i \in DOMAIN sorted : DateLE(sorted[i].date, entry.date) })
    IN  SubSeq(sorted, 1, n) \o << entry >> \o SubSeq(sorted, n + 1, Len(sorted))

\* faulty variant: the history is left in the order of the writes
SortedByDateUnsorted(seq) == seq

RECURSIVE SortedByDate(_)
SortedByDate(seq) ==
    IF seq = << >> THEN << >>
    ELSE InsertByDate(SortedByDate(SubSeq(seq, 1, Len(seq) - 1)), seq[Len(seq)])

\* faulty variant: the entries of earlier dates are dropped with the entry of the day
WithoutDateOrEarlier(hist, today) ==
    SelectSeq(hist, LAMBDA h : ~DateLE(Get(h, "date", None), today))

\* [h for h in history if h.get("date") != today]
WithoutDate(hist, today) == SelectSeq(hist, LAMBDA h : Get(h, "date", None) # today)

\* faulty variant: the entry of the day is appended without removing the old one
UpdateHistoryAppendOnly(file, results, t_date, t_stamp, t_today) ==
    SortedByDate(Append(file, [date |-> FormatDate(DayOf(t_date)),
                               timestamp |-> t_stamp, results |-> results]))

\* DataStorage.update_history with its three clock reads: the entry's date (t_date),
\* its timestamp (t_stamp) and the date the old entries are filtered by (t_today)
UpdateHistory(file, results, t_date, t_stamp, t_today) ==
    LET entry == [date |-> FormatDate(DayOf(t_date)), timestamp |-> t_stamp,
                  results |-> results]
        today == FormatDate(DayOf(t_today))
    IN  SortedByDate(Append(WithoutDate(file, today), entry))

\* the latest instant a datetime.now() of the running call can return: a patched
\* datetime returns the same instant at every read
LastRead == IF patched THEN clock ELSE MaxClock

\* how a call on the store ended: the method, whether it raised, where a Gist read
\* found the history ("cache", "unreachable", "absent", "malformed", "history";
\* "local" on the other backends) and what get_weekly_progress returned
Call(op, raised, found, value) ==
    [op |-> op, raised |-> raised, found |-> found, value |-> value]

\* the record of the save_daily_data calls kept for the properties: how many ended
\* normally, the last two of them, and whether each read the clock on one date only
Saved(days, results) ==
    [n |-> saves.n + 1,
     dated |-> saves.dated /\ Cardinality(days) = 1,
     calls |-> IF saves.calls = << >> THEN << [days |-> days, results |-> results] >>
               ELSE << saves.calls[Len(saves.calls)], [days |-> days, results |-> results] >>]

\* DataStorage.save_daily_data: the daily file, then update_history; the clock may
\* advance between any two of its five reads
JsonSaveDailyData ==
    /\ backend = "json"
    /\ saves.n < MaxSaves
    /\ \E results \in StoreResults :
       \E t_stamp1 \in clock..LastRead :
       \E t_date \in t_stamp1..LastRead :
       \E t_stamp2 \in t_date..LastRead :
       \E t_today \in t_stamp2..LastRead :
          LET today == FormatDate(DayOf(clock))
              daily_data == [date |-> today, timestamp |-> t_stamp1, results |-> results]
          IN  /\ daily_files' = [d \in DOMAIN daily_files \cup { today } |->
                                    IF d = today THEN daily_data ELSE daily_files[d]]
              /\ history_file' = UpdateHistory(history_file, results, t_date, t_stamp2, t_today)
              /\ saves' = Saved({ DayOf(clock), DayOf(t_stamp1), DayOf(t_date),
                                  DayOf(t_stamp2), DayOf(t_today) }, results)
              /\ clock' = t_today
    /\ call' = Call("save_daily_data", FALSE, "local", << >>)
    /\ UNCHANGED << deltaVars, sideVars, backend, patched, daily_snapshots, user_progress, language_progress,
                    sqlite_sequence, gist_file, history_cache, fetches >>

\* DataStorage.load_history
JsonLoadHistory == history_file

\* a finite set as a sequence, in some fixed order
RECURSIVE SetToSeq(_)
SetToSeq(set) ==
    IF set = {} THEN << >>
    ELSE LET x == CHOOSE y \in set : TRUE IN << x >> \o SetToSeq(set \ { x })

\* the (position in results, language) pairs of the language rows, in insertion order
RECURSIVE LanguagePairs(_, _)
LanguagePairs(results, i) ==
    IF i > Len(results) THEN << >>
    ELSE (IF "error" \in DOMAIN results[i][2] THEN << >>
          ELSE LET langs == SetToSeq(DOMAIN Get(results[i][2], "language_progress", << >>))
               IN  [k \in DOMAIN langs |-> << i, langs[k] >>])
         \o LanguagePairs(results, i + 1)

\* the user_progress row of the record at position i of results, the table's
\* AUTOINCREMENT counter at last_id before the call
UserProgressRow(last_id, results, i, snapshot_id, timestamp) ==
    LET user_key == results[i][1]
        user_data == results[i][2]
    IN  IF "error" \in DOMAIN user_data
        THEN [id |-> last_id + i, snapshot_id |-> snapshot_id,
              username |-> user_key, name |-> user_key, streak |-> 0, total_xp |-> 0,
              weekly_xp |-> 0, last_check |-> Get(user_data, "last_check", timestamp),
              error |-> user_data.error]
        ELSE [id |-> last_id + i, snapshot_id |-> snapshot_id,
              username |-> user_data.username, name |-> user_data.name,
              streak |-> user_data.streak, total_xp |-> user_data.total_xp,
              weekly_xp |-> user_data.weekly_xp, last_check |-> user_data.last_check,
              error |-> "NULL"]

\* the language_progress row of the k-th (record, language) pair, the AUTOINCREMENT
\* counters of the two tables at last_id and last_user_id before the call
LanguageProgressRow(last_id, last_user_id, results, pairs, k) ==
    LET user_data == results[pairs[k][1]][2]
        language == pairs[k][2]
        lang_data == user_data.language_progress[language]
    IN  [id |-> last_id + k,
         user_progress_id |-> last_user_id + pairs[k][1],
         language |-> language, xp |-> lang_data.xp,
         from_language |-> lang_data.from_language,
         learning_language |-> lang_data.learning_language,
         weekly_xp |-> Get(Get(user_data, "weekly_xp_per_language", << >>), language, 0)]

\* INSERT OR REPLACE INTO daily_snapshots: UNIQUE(date) deletes the row of the same
\* date, the new row takes the next AUTOINCREMENT id
InsertOrReplace(rows, row) == { r \in rows : r.date # row.date } \cup { row }

\* the database file: the three tables and their AUTOINCREMENT counters
Database(snapshots, users, languages, sequence) ==
    [daily_snapshots |-> snapshots, user_progress |-> users,
     language_progress |-> languages, sqlite_sequence |-> sequence]

\* the transaction of SQLiteStorage.save_daily_data on a database
SqliteSave(db, results, today, timestamp) ==
    LET snapshot_id == db.sqlite_sequence.daily_snapshots + 1
        pairs == LanguagePairs(results, 1)
    IN  Database(
            InsertOrReplace(db.daily_snapshots,
                            [id |-> snapshot_id, date |-> today,
                             timestamp |-> timestamp, data |-> results]),
            { r \in db.user_progress : r.snapshot_id # snapshot_id }
            \cup { UserProgressRow(db.sqlite_sequence.user_progress, results, i,
                                   snapshot_id, timestamp) : i \in DOMAIN results },
            db.language_progress
            \cup { LanguageProgressRow(db.sqlite_sequence.language_progress,
                                       db.sqlite_sequence.user_progress, results, pairs, k) :
                     k \in DOMAIN pairs },
            [daily_snapshots |-> snapshot_id,
             user_progress |-> db.sqlite_sequence.user_progress + Len(results),
             language_progress |-> db.sqlite_sequence.language_progress + Len(pairs)])

\* the fields the INSERT statements read with user_data[...] and lang_data[...]
RequiredFields == { "username", "name", "streak", "total_xp", "weekly_xp", "last_check" }
RequiredLanguageFields == { "xp", "from_language", "learning_language" }

\* the first record at which the loop of save_daily_data raises KeyError; 0 if none
FirstRaising(results) ==
    LET raising ==
            { i \in DOMAIN results :
                /\ "error" \notin DOMAIN results[i][2]
                /\ \/ ~(RequiredFields \subseteq DOMAIN results[i][2])
                   \/ \E l \in DOMAIN Get(results[i][2], "language_progress", << >>) :
                         ~(RequiredLanguageFields
                             \subseteq DOMAIN results[i][2].language_progress[l]) }
    IN  IF raising = {} THEN 0 ELSE CHOOSE i \in raising : \A j \in raising : i <= j

\* faulty variant: the statements executed before the exception are kept
SqliteCommittedPartial(db, results, today, timestamp) ==
    IF FirstRaising(results) = 0 THEN SqliteSave(db, results, today, timestamp)
    ELSE SqliteSave(db, SubSeq(results, 1, FirstRaising(results) - 1), today, timestamp)

\* what the database holds when the "with sqlite3.connect(...) as conn" block of
\* save_daily_data is left: the transaction is rolled back if the block raised
SqliteCommitted(db, results, today, timestamp) ==
    IF FirstRaising(results) = 0 THEN SqliteSave(db, results, today, timestamp)
    ELSE db

\* the database file becomes db
WriteDatabase(db) ==
    /\ daily_snapshots' = db.daily_snapshots
    /\ user_progress' = db.user_progress
    /\ language_progress' = db.language_progress
    /\ sqlite_sequence' = db.sqlite_sequence

\* SQLiteStorage.save_daily_data; the clock may advance between its two reads; the
\* call raises if a record lacks a field the INSERT statements read
SqliteSaveDailyData ==
    /\ backend = "sqlite"
    /\ saves.n < MaxSaves
    /\ \E results \in StoreResults \cup { ResultsBroken } :
       \E timestamp \in clock..LastRead :
          /\ WriteDatabase(SqliteCommitted(Database(daily_snapshots, user_progress,
                                                    language_progress, sqlite_sequence),
                                           results, FormatDate(DayOf(clock)), timestamp))
          /\ saves' = IF FirstRaising(results) = 0
                      THEN Saved({ DayOf(clock), DayOf(timestamp) }, results)
                      ELSE saves
          /\ call' = Call("save_daily_data", FirstRaising(results) # 0, "local", << >>)
          /\ clock' = timestamp
    /\ UNCHANGED << deltaVars, sideVars, backend, patched, history_file, daily_files, gist_file,
                    history_cache, fetches >>

\* DELETE FROM daily_snapshots WHERE date < date('now', '-keep_days days')
DeleteOlderThan(rows, today, keep_days) ==
    { r \in rows : ~DateLT(r.date, FormatDate(today - keep_days)) }

\* SQLiteStorage.cleanup_old_data(keep_days)
CleanupOldData ==
    /\ backend = "sqlite"
    /\ \E keep_days \in 0..MaxKeepDays :
          /\ DayOf(clock) - keep_days >= 0
          /\ daily_snapshots' = DeleteOlderThan(daily_snapshots, DayOf(clock), keep_days)
    /\ call' = Call("cleanup_old_data", FALSE, "local", << >>)
    /\ UNCHANGED << clock, deltaVars, sideVars, backend, patched, history_file, daily_files,
                    user_progress, language_progress, sqlite_sequence, gist_file,
                    history_cache, fetches, saves >>

\* SQLiteStorage.get_database_stats: the three COUNT(*) it reports
GetDatabaseStats ==
    /\ backend = "sqlite"
    /\ call' = Call("get_database_stats", FALSE, "local",
                    [daily_snapshots |-> Cardinality(daily_snapshots),
                     user_progress_entries |-> Cardinality(user_progress),
                     language_progress_entries |-> Cardinality(language_progress)])
    /\ UNCHANGED << clock, deltaVars, sideVars, backend, patched, history_file, daily_files,
                    daily_snapshots, user_progress, language_progress, sqlite_sequence,
                    gist_file, history_cache, fetches, saves >>

\* SELECT date, timestamp, data FROM daily_snapshots ORDER BY date ASC
RECURSIVE OrderByDate(_)
OrderByDate(rows) ==
    IF rows = {} THEN << >>
    ELSE LET first == CHOOSE r \in rows : \A q \in rows : DateLE(r.date, q.date)
         IN  << first >> \o OrderByDate(rows \ { first })

\* SQLiteStorage.load_history
SqliteLoadHistory ==
    LET rows == OrderByDate(daily_snapshots)
    IN  [k \in DOMAIN rows |->
            [date |-> rows[k].date, timestamp |-> rows[k].timestamp,
             results |-> rows[k].data]]

NoCache == [set |-> FALSE, value |-> << >>]

\* faulty variant: content that is not JSON raises, and keeps raising
GistReadStrict(cache, file, reachable) ==
    IF cache.set
    THEN [raised |-> FALSE, value |-> cache.value, cache |-> cache, found |-> "cache",
          fetched |-> FALSE]
    ELSE IF ~reachable
    THEN [raised |-> TRUE, value |-> << >>, cache |-> cache, found |-> "unreachable",
          fetched |-> TRUE]
    ELSE IF ~file.present
    THEN [raised |-> FALSE, value |-> << >>, cache |-> cache, found |-> "absent",
          fetched |-> TRUE]
    ELSE IF ~file.valid
    THEN [raised |-> TRUE, value |-> << >>, cache |-> cache, found |-> "malformed",
          fetched |-> TRUE]
    ELSE [raised |-> FALSE, value |-> file.content,
          cache |-> [set |-> TRUE, value |-> file.content], found |-> "history",
          fetched |-> TRUE]

\* GistStorage._get_history_from_gist on the cache and the remote file, the GET
\* request succeeding or not: whether it raises, the list it returns, the cache it
\* leaves, where it found the history, and whether it made the request
GistRead(cache, file, reachable) ==
    IF cache.set
    THEN [raised |-> FALSE, value |-> cache.value, cache |-> cache, found |-> "cache",
          fetched |-> FALSE]
    ELSE IF ~reachable
    THEN [raised |-> TRUE, value |-> << >>, cache |-> cache, found |-> "unreachable",
          fetched |-> TRUE]
    ELSE IF ~file.present
    THEN [raised |-> FALSE, value |-> << >>, cache |-> cache, found |-> "absent",
          fetched |-> TRUE]
    ELSE IF ~file.valid
    THEN [raised |-> FALSE, value |-> << >>, cache |-> cache, found |-> "malformed",
          fetched |-> TRUE]
    ELSE [raised |-> FALSE, value |-> file.content,
          cache |-> [set |-> TRUE, value |-> file.content], found |-> "history",
          fetched |-> TRUE]

\* GistStorage._get_history_from_gist: the value it returns when the gist is reachable
GistHistory == GistRead(history_cache, gist_file, TRUE).value

\* GistStorage._get_history_from_gist: the cache it leaves when the gist is reachable
GistCacheAfterRead == GistRead(history_cache, gist_file, TRUE).cache

\* faulty variant: a failed GET request is taken for an empty history
StoreReadEmptyOnFailure(local, reachable) ==
    IF backend = "gist"
    THEN [GistRead(history_cache, gist_file, reachable) EXCEPT !.raised = FALSE]
    ELSE [raised |-> FALSE, value |-> local, cache |-> history_cache, found |-> "local",
          fetched |-> FALSE]

\* a read of this backend's history: _get_history_from_gist, or the local read of the
\* other two backends
StoreRead(local, reachable) ==
    IF backend = "gist" THEN GistRead(history_cache, gist_file, reachable)
    ELSE [raised |-> FALSE, value |-> local, cache |-> history_cache, found |-> "local",
          fetched |-> FALSE]

\* the GET budget allows the read
MayRead == backend = "gist" => (history_cache.set \/ fetches < MaxFetches)

\* GistStorage.save_daily_data: two clock reads (the clock may advance between them),
\* the read of the history, which raises if the gist cannot be fetched, then
\* _update_gist, whose PATCH succeeds (and the cache is cleared) or raises
GistSaveDailyData ==
    /\ backend = "gist"
    /\ saves.n < MaxSaves
    /\ MayRead
    /\ \E results \in StoreResults :
       \E timestamp \in clock..LastRead :
       \E reachable, updated \in BOOLEAN :
          LET today == FormatDate(DayOf(clock))
              read == GistRead(history_cache, gist_file, reachable)
              entry == [date |-> today, timestamp |-> timestamp, results |-> results]
          IN  /\ clock' = timestamp
              /\ fetches' = IF read.fetched THEN fetches + 1 ELSE fetches
              /\ call' = Call("save_daily_data", read.raised \/ ~updated, read.found, << >>)
              /\ IF read.raised
                 THEN UNCHANGED << gist_file, history_cache, saves >>
                 ELSE IF ~updated
                 THEN /\ history_cache' = read.cache
                      /\ UNCHANGED << gist_file, saves >>
                 ELSE /\ gist_file' =
                            [present |-> TRUE, valid |-> TRUE,
                             content |-> SortedByDate(Append(WithoutDate(read.value, today),
                                                             entry))]
                      /\ history_cache' = NoCache
                      /\ saves' = Saved({ DayOf(clock), DayOf(timestamp) }, results)
    /\ UNCHANGED << deltaVars, sideVars, backend, patched, history_file, daily_files, daily_snapshots,
                    user_progress, language_progress, sqlite_sequence >>

\* what load_history of the backend in use returns
LoadedHistory ==
    IF backend = "json" THEN JsonLoadHistory
    ELSE IF backend = "sqlite" THEN SqliteLoadHistory
    ELSE GistHistory

\* storage.load_history(): the caller keeps the list for the delta functions; on the
\* Gist backend the call raises if the gist cannot be fetched
LoadHistory ==
    /\ MayRead
    /\ \E reachable \in BOOLEAN :
          LET read == StoreRead(LoadedHistory, reachable)
          IN  /\ history' = IF read.raised THEN history ELSE read.value
              /\ history_cache' = read.cache
              /\ fetches' = IF read.fetched THEN fetches + 1 ELSE fetches
              /\ call' = Call("load_history", read.raised, read.found, << >>)
    /\ UNCHANGED << clock, username, current_total_xp, current_language_progress,
                    reference, outcome, pc, sideVars, backend, patched, history_file, daily_files,
                    daily_snapshots, user_progress, language_progress, sqlite_sequence,
                    gist_file, saves >>

\* history[-7:]
LastSeven(hist) == SubSeq(hist, Max(1, Len(hist) - 6), Len(hist))

\* faulty variant: the oldest seven entries
JsonGetWeeklyProgressOldest(hist) == SubSeq(hist, 1, IF Len(hist) < 7 THEN Len(hist) ELSE 7)

\* DataStorage.get_weekly_progress and GistStorage.get_weekly_progress on the history
\* they loaded
JsonGetWeeklyProgress(hist) == IF hist = << >> THEN << >> ELSE LastSeven(hist)

\* SELECT ... FROM daily_snapshots ORDER BY date DESC LIMIT 7
RECURSIVE OrderByDateDescLimit(_, _)
OrderByDateDescLimit(rows, limit) ==
    IF rows = {} \/ limit = 0 THEN << >>
    ELSE LET first == CHOOSE r \in rows : \A q \in rows : DateLE(q.date, r.date)
         IN  << first >> \o OrderByDateDescLimit(rows \ { first }, limit - 1)

\* faulty variant: the rows are left latest first
NotReversed(seq) == seq

\* list(reversed(weekly_data))
Reversed(seq) == [k \in DOMAIN seq |-> seq[Len(seq) + 1 - k]]

\* SQLiteStorage.get_weekly_progress
SqliteGetWeeklyProgress ==
    LET rows == Reversed(OrderByDateDescLimit(daily_snapshots, 7))
    IN  [k \in DOMAIN rows |->
            [date |-> rows[k].date, timestamp |-> rows[k].timestamp,
             results |-> rows[k].data]]

\* storage.get_weekly_progress()
GetWeeklyProgress ==
    /\ MayRead
    /\ \E reachable \in BOOLEAN :
          LET read == StoreRead(IF backend = "json" THEN history_file ELSE << >>, reachable)
              weekly == IF backend = "sqlite" THEN SqliteGetWeeklyProgress
                        ELSE IF read.raised THEN << >>
                        ELSE JsonGetWeeklyProgress(read.value)
          IN  /\ history_cache' = read.cache
              /\ fetches' = IF read.fetched THEN fetches + 1 ELSE fetches
              /\ call' = Call("get_weekly_progress", read.raised, read.found, weekly)
    /\ UNCHANGED << clock, deltaVars, sideVars, backend, patched, history_file, daily_files, daily_snapshots,
                    user_progress, language_progress, sqlite_sequence, gist_file, saves >>

\* GistStorage.clear_cache
ClearCache ==
    /\ backend = "gist"
    /\ history_cache' = NoCache
    /\ call' = Call("clear_cache", FALSE, "none", << >>)
    /\ UNCHANGED << clock, deltaVars, sideVars, backend, patched, history_file, daily_files, daily_snapshots,
                    user_progress, language_progress, sqlite_sequence, gist_file, fetches,
                    saves >>

\* time passes between two calls
Tick ==
    /\ ~patched
    /\ clock < MaxClock
    /\ clock' = clock + 1
    /\ UNCHANGED << deltaVars, storeVars, sideVars >>

\* the clock is set to the start of another day between two calls, as the migrator
\* and the tests do by patching datetime
SetClock ==
    /\ patched
    /\ \E d \in 0..DayOf(MaxClock) :
          /\ d # DayOf(clock)
          /\ clock' = d * TicksPerDay
    /\ UNCHANGED << deltaVars, storeVars, sideVars >>

\* league_history.json of the gist: absent, present with content that is not JSON,
\* or present with a history
RemoteFiles ==
    { [present |-> FALSE, valid |-> TRUE, content |-> << >>],
      [present |-> TRUE, valid |-> FALSE, content |-> << >>],
      [present |-> TRUE, valid |-> TRUE, content |-> << >>] }

\* no migration was run, no request is being made and no check of the family is
\* under way
NoExport == [migrated |-> << >>, done |-> FALSE, history |-> << >>, daily_files |-> << >>]
NoRequest ==
    [pc |-> "idle", max_retries |-> 0, base_delay |-> 0, attempt |-> 0, events |-> << >>,
     result |-> "none"]
NoPool ==
    [pc |-> "idle", members |-> << >>, futures |-> << >>, collected |-> {},
     results |-> << >>]
Idle ==
    /\ exported = NoExport
    /\ request = NoRequest
    /\ pool = NoPool

\* a store nothing was saved to; the gist may hold no file, a file that is not JSON
\* or an empty history
EmptyStore ==
    /\ history_file = << >>
    /\ daily_files = << >>
    /\ daily_snapshots = {}
    /\ user_progress = {}
    /\ language_progress = {}
    /\ sqlite_sequence = [daily_snapshots |-> 0, user_progress |-> 0, language_progress |-> 0]
    /\ gist_file \in RemoteFiles
    /\ backend # "gist" => ~gist_file.present
    /\ history_cache = NoCache
    /\ fetches = 0
    /\ call = Call("none", FALSE, "none", << >>)
    /\ saves = [n |-> 0, dated |-> TRUE, calls |-> << >>]
    /\ Idle

InitStore ==
    /\ clock = 0
    /\ backend \in Backends
    /\ EmptyStore
    /\ patched = FALSE
    /\ history = << >>
    /\ username = Ann
    /\ current_total_xp = 0
    /\ current_language_progress = << >>
    /\ reference = None
    /\ outcome = [raised |-> FALSE, weekly_xp |-> 0, weekly_xp_per_language |-> << >>,
                  daily_xp |-> 0, daily_xp_per_language |-> << >>]
    /\ pc = "ready"

NextStore ==
    \/ JsonSaveDailyData
    \/ SqliteSaveDailyData
    \/ GistSaveDailyData
    \/ LoadHistory
    \/ Tick

SpecStore == InitStore /\ [][NextStore]_vars

\* saves made on dates in any order under a patched datetime, the clock set to the
\* date of each entry between the calls
InitBackfill ==
    /\ clock \in { d * TicksPerDay : d \in 0..DayOf(MaxClock) }
    /\ backend \in Backends
    /\ EmptyStore
    /\ patched = TRUE
    /\ history = << >>
    /\ username = Ann
    /\ current_total_xp = 0
    /\ current_language_progress = << >>
    /\ reference = None
    /\ outcome = [raised |-> FALSE, weekly_xp |-> 0, weekly_xp_per_language |-> << >>,
                  daily_xp |-> 0, daily_xp_per_language |-> << >>]
    /\ pc = "ready"

NextBackfill ==
    \/ JsonSaveDailyData
    \/ SqliteSaveDailyData
    \/ GistSaveDailyData
    \/ SetClock

SpecBackfill == InitBackfill /\ [][NextBackfill]_vars

\* the calls of one SQLiteStorage instance
InitSqlite ==
    /\ InitStore
    /\ backend = "sqlite"

NextSqlite ==
    \/ SqliteSaveDailyData
    \/ CleanupOldData
    \/ GetDatabaseStats
    \/ LoadHistory
    \/ Tick

SpecSqlite == InitSqlite /\ [][NextSqlite]_vars

\* the calls of one GistStorage instance
InitGist ==
    /\ InitStore
    /\ backend = "gist"

NextGist ==
    \/ GistSaveDailyData
    \/ LoadHistory
    \/ GetWeeklyProgress
    \/ ClearCache
    \/ Tick

SpecGist == InitGist /\ [][NextGist]_vars

\* the results saved on day d in the stores found at start-up
ResultsOn(d) == IF d % 2 = 0 THEN ResultsA ELSE ResultsB

\* the days of n earlier saves in calling order: one a day from day 0 on, or the
\* same days latest first (a backfill)
DaysSaved(n, backfill) == [k \in 1..n |-> IF backfill THEN n - k ELSE k - 1]

\* the history file after saves on these days, each call reading the start of its day
RECURSIVE HistoryAfter(_)
HistoryAfter(days) ==
    IF days = << >> THEN << >>
    ELSE LET d == days[Len(days)]
         IN  UpdateHistory(HistoryAfter(SubSeq(days, 1, Len(days) - 1)), ResultsOn(d),
                           d * TicksPerDay, d * TicksPerDay, d * TicksPerDay)

\* the daily files after saves on these days
DailyFilesAfter(days) ==
    [date \in { FormatDate(days[k]) : k \in DOMAIN days } |->
        LET d == CHOOSE e \in { days[k] : k \in DOMAIN days } : FormatDate(e) = date
        IN  [date |-> date, timestamp |-> d * TicksPerDay, results |-> ResultsOn(d)]]

\* the database after saves on these days
RECURSIVE DatabaseAfter(_)
DatabaseAfter(days) ==
    IF days = << >>
    THEN Database({}, {}, {},
                  [daily_snapshots |-> 0, user_progress |-> 0, language_progress |-> 0])
    ELSE LET d == days[Len(days)]
         IN  SqliteSave(DatabaseAfter(SubSeq(days, 1, Len(days) - 1)), ResultsOn(d),
                        FormatDate(d), d * TicksPerDay)

\* a new storage instance over a store that earlier runs saved to: n entries, saved
\* day after day or latest first
InitWeek ==
    /\ backend \in Backends
    /\ patched \in BOOLEAN
    /\ \E n \in 0..MaxStored :
          LET days == DaysSaved(n, patched)
              db == DatabaseAfter(IF backend = "sqlite" THEN days ELSE << >>)
          IN  /\ clock = (IF n = 0 THEN 0 ELSE days[n]) * TicksPerDay
              /\ history_file = (IF backend = "json" THEN HistoryAfter(days) ELSE << >>)
              /\ daily_files = (IF backend = "json" THEN DailyFilesAfter(days) ELSE << >>)
              /\ daily_snapshots = db.daily_snapshots
              /\ user_progress = db.user_progress
              /\ language_progress = db.language_progress
              /\ sqlite_sequence = db.sqlite_sequence
              /\ gist_file \in
                    IF backend = "gist" /\ n > 0
                    THEN { [present |-> TRUE, valid |-> TRUE, content |-> HistoryAfter(days)] }
                    ELSE { f \in RemoteFiles : backend # "gist" => ~f.present }
    /\ history_cache = NoCache
    /\ fetches = 0
    /\ call = Call("none", FALSE, "none", << >>)
    /\ saves = [n |-> 0, dated |-> TRUE, calls |-> << >>]
    /\ Idle
    /\ history = << >>
    /\ username = Ann
    /\ current_total_xp = 0
    /\ current_language_progress = << >>
    /\ reference = None
    /\ outcome = [raised |-> FALSE, weekly_xp |-> 0, weekly_xp_per_language |-> << >>,
                  daily_xp |-> 0, daily_xp_per_language |-> << >>]
    /\ pc = "ready"

NextWeek ==
    \/ LoadHistory
    \/ GetWeeklyProgress

SpecWeek == InitWeek /\ [][NextWeek]_vars

----------------------------------------------------------------------------
(* The delta engine on every bounded history *)

Init ==
    /\ clock \in { d * TicksPerDay : d \in ClockDays }
    /\ history \in Histories
    /\ username = Ann
    /\ \E r \in Snapshots :
          /\ current_total_xp = r.total_xp
          /\ current_language_progress = r.language_progress
    /\ reference = None
    /\ outcome = NoOutcome
    /\ pc = "ready"
    /\ backend = "json"
    /\ EmptyStore
    /\ patched = FALSE

\* get_user_progress computing the four deltas of one account from the history
GetUserProgress ==
    /\ pc = "ready"
    /\ outcome' =
          [raised |-> FALSE,
           weekly_xp_per_language |->
               calculate_weekly_xp_per_language(username, current_language_progress,
                                                history, DayOf(clock)),
           daily_xp_per_language |->
               calculate_daily_xp_per_language(username, current_language_progress,
                                               history, DayOf(clock)),
           weekly_xp |->
               calculate_weekly_xp(username, current_total_xp, history, DayOf(clock)),
           daily_xp |->
               calculate_daily_xp(username, current_total_xp, history, DayOf(clock))]
    /\ pc' = "done"
    /\ UNCHANGED << clock, history, username, current_total_xp,
                    current_language_progress, reference, storeVars, sideVars >>

Next == GetUserProgress

Spec == Init /\ [][Next]_vars

----------------------------------------------------------------------------
(* Vocabulary of the properties *)

\* the day number a formatted date stands for
DayNumber(date) == CHOOSE n \in (0..37) \cup (738..768) : FormatDate(n) = date

\* the Monday at or before day d
MondayOf(d) == CHOOSE m \in (d - 6)..d : m % 7 = 0

\* the positions in results of the records stored under the key name
RecordsOf(entry, name) == { i \in DOMAIN entry.results : entry.results[i][1] = name }

\* the entry holds a record (of either shape) for the account
HoldsAccount(entry, name) == RecordsOf(entry, name) # {}

\* the account's record in the entry
AccountRecord(entry, name) ==
    entry.results[CHOOSE i \in RecordsOf(entry, name) : TRUE][2]

\* the entry holds a snapshot of the account: a record with a total_xp
HoldsSnapshot(entry, name) ==
    HoldsAccount(entry, name) /\ "total_xp" \in DOMAIN AccountRecord(entry, name)

Today == DayOf(clock)

\* entries holding the account dated strictly before the Monday, and on or after it
BeforeWeek ==
    { k \in DOMAIN history :
        HoldsAccount(history[k], username)
        /\ DayNumber(history[k].date) < MondayOf(Today) }
InWeek ==
    { k \in DOMAIN history :
        HoldsAccount(history[k], username)
        /\ DayNumber(history[k].date) >= MondayOf(Today) }

LatestOf(ks) ==
    CHOOSE k \in ks : \A j \in ks : DayNumber(history[j].date) <= DayNumber(history[k].date)
EarliestOf(ks) ==
    CHOOSE k \in ks : \A j \in ks : DayNumber(history[k].date) <= DayNumber(history[j].date)

\* the entry the weekly baseline is read from, 0 if there is none
BaselineEntry ==
    IF BeforeWeek # {} THEN LatestOf(BeforeWeek)
    ELSE IF InWeek # {} THEN EarliestOf(InWeek)
    ELSE 0

----------------------------------------------------------------------------
(* Properties of the delta engine, checked under Spec *)

\* C1: calculate_weekly_xp returns max(0, current_total_xp - B), B being the account's
\* total_xp in the latest entry dated strictly before the Monday at or before the
\* clock's date that holds the account, otherwise in the earliest entry dated on or
\* after that Monday (an entry dated on the Monday is in-period); 0 if no entry holds
\* the account. Where the chosen record carries no total_xp there is no B to state.
C1_WeeklyBaseline ==
    pc = "done" =>
        IF BaselineEntry = 0 THEN outcome.weekly_xp = 0
        ELSE HoldsSnapshot(history[BaselineEntry], username) =>
                outcome.weekly_xp =
                    Max(0, current_total_xp
                           - AccountRecord(history[BaselineEntry], username).total_xp)

\* C1 witness: two snapshots before the Monday with different totals, the later one
\* being the baseline of a positive weekly XP
C1_Witness ==
    /\ pc = "done"
    /\ Cardinality(BeforeWeek) >= 2
    /\ \A k \in BeforeWeek : HoldsSnapshot(history[k], username)
    /\ \E j, k \in BeforeWeek :
          AccountRecord(history[j], username).total_xp
              # AccountRecord(history[k], username).total_xp
    /\ outcome.weekly_xp > 0

\* the history without the error records
WithoutErrors(hist) ==
    [k \in DOMAIN hist |->
        [hist[k] EXCEPT !.results =
            SelectSeq(hist[k].results, LAMBDA kv : "error" \notin DOMAIN kv[2])]]

\* C5: an entry holding an error marker for the account is treated as holding no data
\* for it: the weekly and daily deltas equal those computed from the same history with
\* the error records removed.
C5_ErrorRecordIsNoData ==
    pc = "done" =>
        /\ outcome.weekly_xp =
              calculate_weekly_xp(username, current_total_xp, WithoutErrors(history), Today)
        /\ outcome.daily_xp =
              calculate_daily_xp(username, current_total_xp, WithoutErrors(history), Today)

\* C6: if no entry dated before the week start holds the account and the only entry
\* dated at or after the week start records a total_xp equal to current_total_xp, the
\* weekly delta is 0.
C6_FirstDayZero ==
    (/\ pc = "done"
     /\ BeforeWeek = {}
     /\ Cardinality({ k \in DOMAIN history :
                        DayNumber(history[k].date) >= MondayOf(Today) }) = 1
     /\ \E k \in InWeek :
           /\ HoldsSnapshot(history[k], username)
           /\ AccountRecord(history[k], username).total_xp = current_total_xp)
    => outcome.weekly_xp = 0

\* C6 witness: the first day of tracking of an account that already has XP
C6_Witness ==
    /\ pc = "done"
    /\ BeforeWeek = {}
    /\ Len(history) = 1
    /\ InWeek = { 1 }
    /\ HoldsSnapshot(history[1], username)
    /\ AccountRecord(history[1], username).total_xp = current_total_xp
    /\ current_total_xp > 0
    /\ outcome.weekly_xp = 0

\* C7: the weekly and daily deltas, the totals and every per-language value, are
\* non-negative integers, also when the current value is below the baseline.
C7_NonNegative ==
    pc = "done" =>
        /\ outcome.weekly_xp \in Nat
        /\ outcome.daily_xp \in Nat
        /\ \A lang \in DOMAIN outcome.weekly_xp_per_language :
              outcome.weekly_xp_per_language[lang] \in Nat
        /\ \A lang \in DOMAIN outcome.daily_xp_per_language :
              outcome.daily_xp_per_language[lang] \in Nat

\* C7 witness: the current total and a language's current xp are below the values of
\* the baseline snapshot, and the deltas are clamped to 0
C7_Witness ==
    /\ pc = "done"
    /\ BaselineEntry # 0
    /\ HoldsSnapshot(history[BaselineEntry], username)
    /\ AccountRecord(history[BaselineEntry], username).total_xp > current_total_xp
    /\ \E lang \in DOMAIN current_language_progress :
          /\ lang \in DOMAIN AccountRecord(history[BaselineEntry], username).language_progress
          /\ AccountRecord(history[BaselineEntry], username).language_progress[lang].xp
                > current_language_progress[lang].xp
          /\ outcome.weekly_xp_per_language[lang] = 0
    /\ outcome.weekly_xp = 0

\* the entries dated exactly the day before the clock's date holding a snapshot
YesterdayEntries ==
    { k \in DOMAIN history :
        /\ DayNumber(history[k].date) = Today - 1
        /\ HoldsSnapshot(history[k], username) }

\* C8: with an entry dated exactly the day before the reference date that holds the
\* account, calculate_daily_xp returns max(0, current_total_xp - that entry's total_xp),
\* whatever older entries or entries of the reference date the history holds.
C8_DailyBaseline ==
    pc = "done" =>
        \A k \in YesterdayEntries :
            outcome.daily_xp =
                Max(0, current_total_xp - AccountRecord(history[k], username).total_xp)

\* C8 witness: yesterday's snapshot and an older one with another total
C8_Witness ==
    /\ pc = "done"
    /\ \E k \in YesterdayEntries :
          /\ \E j \in DOMAIN history :
                /\ DayNumber(history[j].date) < Today - 1
                /\ HoldsSnapshot(history[j], username)
                /\ AccountRecord(history[j], username).total_xp
                      # AccountRecord(history[k], username).total_xp
          /\ outcome.daily_xp > 0

\* the language_progress of the account's record in the weekly baseline entry
BaselineLanguages ==
    Get(AccountRecord(history[BaselineEntry], username), "language_progress", << >>)

\* C11: in the per-language weekly computation a language of the current progress that
\* the chosen baseline snapshot does not hold reports its full current xp, a language
\* both hold reports max(0, current xp - baseline xp), and no language absent from
\* the current progress is reported.
C11_NewLanguageFullCredit ==
    pc = "done" =>
        /\ DOMAIN outcome.weekly_xp_per_language \subseteq DOMAIN current_language_progress
        /\ BaselineEntry # 0 =>
              \A lang \in DOMAIN current_language_progress :
                  /\ lang \in DOMAIN outcome.weekly_xp_per_language
                  /\ outcome.weekly_xp_per_language[lang] =
                        IF lang \in DOMAIN BaselineLanguages
                        THEN Max(0, current_language_progress[lang].xp
                                    - BaselineLanguages[lang].xp)
                        ELSE current_language_progress[lang].xp

\* C11 witness: the baseline snapshot holds one language (and a second the account
\* has dropped or not), the current progress holds it and a new one
C11_Witness ==
    /\ pc = "done"
    /\ BaselineEntry # 0
    /\ BaselineLanguages # << >>
    /\ \E old, new \in DOMAIN current_language_progress :
          /\ old \in DOMAIN BaselineLanguages
          /\ new \notin DOMAIN BaselineLanguages
          /\ outcome.weekly_xp_per_language[new] = current_language_progress[new].xp
          /\ outcome.weekly_xp_per_language[new] > 0
          /\ outcome.weekly_xp_per_language[old] =
                current_language_progress[old].xp - BaselineLanguages[old].xp

\* the account's snapshots and its current state each hold the single language lang,
\* whose xp is the total_xp
SingleLanguage(lang) ==
    /\ DOMAIN current_language_progress = { lang }
    /\ current_language_progress[lang].xp = current_total_xp
    /\ \A k \in DOMAIN history :
          HoldsAccount(history[k], username) =>
              /\ HoldsSnapshot(history[k], username)
              /\ DOMAIN AccountRecord(history[k], username).language_progress = { lang }
              /\ AccountRecord(history[k], username).language_progress[lang].xp
                    = AccountRecord(history[k], username).total_xp

\* C12: the per-language weekly computation selects its baseline as the total one does:
\* for an account whose snapshots and current state hold a single language with xp
\* equal to total_xp, the weekly delta of that language (0 if it is not reported)
\* equals the total weekly delta, also when no history entry holds the account, where
\* both are 0.
C12_SameBaselineRule ==
    \A lang \in Langs :
        (pc = "done" /\ SingleLanguage(lang)) =>
            /\ Get(outcome.weekly_xp_per_language, lang, 0) = outcome.weekly_xp
            /\ BaselineEntry = 0 => outcome.weekly_xp = 0

----------------------------------------------------------------------------
(* Account matching: one entry, records under several spellings of one name *)

MaxRecords == 2     \* an entry of SpecMatch holds at most MaxRecords records

Test_User == << "T", "e", "s", "t", "_", "U", "s", "e", "r" >>
TestSpaceUser == << "T", "e", "s", "t", " ", "U", "s", "e", "r" >>
test_user == << "t", "e", "s", "t", "_", "u", "s", "e", "r" >>
testSpaceUser == << "t", "e", "s", "t", " ", "u", "s", "e", "r" >>

Spellings == { Test_User, TestSpaceUser, test_user, testSpaceUser, Bob }

\* results dicts of 1..MaxRecords records with distinct keys; the record at position i
\* has total_xp i, so the delta tells which record was read
MatchResults ==
    UNION { { [i \in 1..n |-> << keys[i], [username |-> names[i], total_xp |-> i] >>] :
                keys \in { ks \in [1..n -> Spellings] :
                             \A i, j \in 1..n : i # j => ks[i] # ks[j] },
                names \in [1..n -> Spellings] } :
            n \in 1..MaxRecords }

\* the wall clock is on Tuesday 2024-01-02; the entry is dated the Sunday before the
\* week or the Monday (yesterday)
InitMatch ==
    /\ clock = 8 * TicksPerDay
    /\ \E d \in { 6, 7 }, rs \in MatchResults :
          history = << [date |-> FormatDate(d), timestamp |-> d * TicksPerDay,
                        results |-> rs] >>
    /\ username \in Spellings
    /\ current_total_xp = MaxRecords + 1
    /\ current_language_progress = << >>
    /\ reference = None
    /\ outcome = NoOutcome
    /\ pc = "ready"
    /\ backend = "json"
    /\ EmptyStore
    /\ patched = FALSE

SpecMatch == InitMatch /\ [][Next]_vars

\* the two strings are equal ignoring letter case
SameIgnoringCase(a, b) ==
    /\ Len(a) = Len(b)
    /\ \A i \in DOMAIN a :
          \/ a[i] = b[i]
          \/ \E j \in DOMAIN UpperLetters :
                { a[i], b[i] } = { UpperLetters[j], LowerLetters[j] }

\* the stored key with its spaces written as underscores
Underscored(key) == [i \in DOMAIN key |-> IF key[i] = " " THEN "_" ELSE key[i]]

\* the records of the single entry that match the lookup by the stated rule
StatedMatches ==
    { i \in DOMAIN history[1].results :
        \/ SameIgnoringCase(history[1].results[i][2].username, username)
        \/ SameIgnoringCase(Underscored(history[1].results[i][1]), username) }

FirstStated == CHOOSE i \in StatedMatches : \A j \in StatedMatches : i <= j

\* C9 as stated: a record stored under the key "Test_User" is matched by the lookup
\* "test user" and read as the account's snapshot by the weekly and daily deltas.
C9_UnderscoreKeyMatchesSpaceLookup ==
    (/\ pc = "done"
     /\ username = testSpaceUser
     /\ history[1].results[1][1] = Test_User)
    => /\ outcome.weekly_xp = current_total_xp - history[1].results[1][2].total_xp
       /\ outcome.daily_xp = current_total_xp - history[1].results[1][2].total_xp

\* C9 amended: a record stored under the key "Test User" is matched by the lookup
\* "test_user" (case is normalized on both sides, spaces become underscores in the
\* stored key only) and read as the account's snapshot by the weekly and daily deltas.
C9_SpaceKeyMatchesUnderscoreLookup ==
    (/\ pc = "done"
     /\ username = test_user
     /\ history[1].results[1][1] = TestSpaceUser)
    => /\ outcome.weekly_xp = current_total_xp - history[1].results[1][2].total_xp
       /\ outcome.daily_xp = current_total_xp - history[1].results[1][2].total_xp

\* C9 witness: the key is the only thing that matches (the username field does not)
C9_Witness ==
    /\ pc = "done"
    /\ username = test_user
    /\ Len(history[1].results) = 1
    /\ history[1].results[1][1] = TestSpaceUser
    /\ history[1].results[1][2].username = testSpaceUser
    /\ outcome.weekly_xp = current_total_xp - 1
    /\ outcome.daily_xp = current_total_xp - 1

\* C10: a record matches the lookup U when its username field equals U ignoring case
\* or its key, lower-cased with spaces as underscores, equals U lower-cased; no other
\* record matches; the first matching record in stored order is the one read.
C10_MatchingRule ==
    pc = "done" =>
        IF StatedMatches = {}
        THEN outcome.weekly_xp = 0 /\ outcome.daily_xp = 0
        ELSE /\ outcome.weekly_xp
                  = current_total_xp - history[1].results[FirstStated][2].total_xp
             /\ outcome.daily_xp
                  = current_total_xp - history[1].results[FirstStated][2].total_xp

\* C10 witness: two records match, the first by its username field alone and the
\* second by its key alone; the first is read
C10_Witness ==
    /\ pc = "done"
    /\ Len(history[1].results) >= 2
    /\ StatedMatches = { 1, 2 }
    /\ ~SameIgnoringCase(Underscored(history[1].results[1][1]), username)
    /\ ~SameIgnoringCase(history[1].results[2][2].username, username)
    /\ outcome.weekly_xp = current_total_xp - 1
    /\ outcome.daily_xp = current_total_xp - 1

----------------------------------------------------------------------------
(* A caller that wants to fix the reference date (tests/test_weekly_xp.py) *)

Cheezegamer == << "c", "h", "e", "e", "z", "e", "g", "a", "m", "e", "r" >>

\* 2026-01-11 .. 2026-01-19, a Sunday to the Monday of the week after
ReferenceDays == 748..756

ReferenceEntry(d, xp) ==
    [date |-> FormatDate(d),
     results |-> << << Cheezegamer, [username |-> Cheezegamer, total_xp |-> xp] >> >>]

\* the history of test_calculate_weekly_xp_with_reference_date_shifts_week_boundary
ReferenceHistory ==
    << ReferenceEntry(748, 28272), ReferenceEntry(750, 28295),
       ReferenceEntry(752, 28570), ReferenceEntry(755, 28570) >>

InitReference ==
    /\ clock \in { d * TicksPerDay : d \in ReferenceDays }
    /\ history = ReferenceHistory
    /\ username = Cheezegamer
    /\ current_total_xp = 28570
    /\ current_language_progress = << >>
    /\ reference \in { None } \cup { << d >> : d \in ReferenceDays }
    /\ outcome = NoOutcome
    /\ pc = "ready"
    /\ backend = "json"
    /\ EmptyStore
    /\ patched = FALSE

\* calculate_weekly_xp(username, current_total_xp, history): the week is the clock's
CallWeekly ==
    /\ pc = "ready"
    /\ reference = None
    /\ outcome' = [NoOutcome EXCEPT !.weekly_xp =
                      calculate_weekly_xp(username, current_total_xp, history, DayOf(clock))]
    /\ pc' = "done"
    /\ UNCHANGED << clock, history, username, current_total_xp,
                    current_language_progress, reference, storeVars, sideVars >>

\* calculate_weekly_xp(username, current_total_xp, history, reference_date=...): the
\* function has no such parameter, the call raises TypeError before its body runs
CallWeeklyWithReference ==
    /\ pc = "ready"
    /\ reference # None
    /\ outcome' = [NoOutcome EXCEPT !.raised = TRUE]
    /\ pc' = "done"
    /\ UNCHANGED << clock, history, username, current_total_xp,
                    current_language_progress, reference, storeVars, sideVars >>

NextReference == CallWeekly \/ CallWeeklyWithReference

SpecReference == InitReference /\ [][NextReference]_vars

\* C2: the weekly boundary comes from the reference instant the caller supplies, not
\* from the wall clock: on the test's history with current total 28570, reference
\* 2026-01-19 gives 0 and reference 2026-01-18 gives 298; without a reference the
\* current instant is used.
C2_ReferenceDecidesWeek ==
    pc = "done" =>
        /\ reference = << 756 >> => ~outcome.raised /\ outcome.weekly_xp = 0
        /\ reference = << 755 >> => ~outcome.raised /\ outcome.weekly_xp = 298
        /\ reference = None =>
              /\ ~outcome.raised
              /\ outcome.weekly_xp =
                    Max(0, current_total_xp
                           - AccountRecord(history[BaselineEntry], username).total_xp)

----------------------------------------------------------------------------
(* The delta functions on a history of any shape: what their try blocks raise *)
(* and what "except Exception" turns it into                                  *)

\* A value of the decoded JSON whose type the code does not check is written with its
\* Python type: [type |-> "dict", val |-> ...], [type |-> "NoneType"], ...
PyNone == [type |-> "NoneType"]
PyInt(n) == [type |-> "int", val |-> n]
PyStr(s) == [type |-> "str", val |-> s]
PyDict(d) == [type |-> "dict", val |-> d]
PyList(l) == [type |-> "list", val |-> l]

\* bool(v) of the values the model uses
Truthy(v) ==
    IF v.type = "NoneType" THEN FALSE
    ELSE IF v.type = "int" THEN v.val # 0
    ELSE v.val # << >>

\* what a try block produced: a value, or an exception on its way out
Returned(v) == [raised |-> FALSE, value |-> v]
Raised == [raised |-> TRUE, value |-> << >>]

\* faulty variant: the exception is not caught
TryExceptReraise(body, default) == body

\* try: ... except Exception: return default
TryExcept(body, default) == IF body.raised THEN Returned(default) ELSE body

\* "if history is None: storage = DataStorage(); history = storage.load_history()":
\* the history the body works on, or Raised when loading the default store fails
HistoryOrDefault(hist) ==
    IF hist.type = "NoneType"
    THEN IF hist.load_fails THEN Raised ELSE Returned(hist.default)
    ELSE Returned(hist.val)

\* the record as the matching rule reads it: user_data.get("username", "")
ReadableRecord(user_data) ==
    IF user_data.type # "dict" THEN << >>
    ELSE IF "username" \in DOMAIN user_data.val /\ user_data.val.username.type = "str"
    THEN [user_data.val EXCEPT !.username = user_data.val.username.val]
    ELSE [key \in DOMAIN user_data.val \ { "username" } |-> user_data.val[key]]

\* evaluating the matching condition on one record raises AttributeError: user_data
\* has no get (it is not a dict) or its username has no lower (it is not a str)
RecordRaises(user_data) ==
    \/ user_data.type # "dict"
    \/ "username" \in DOMAIN user_data.val /\ user_data.val.username.type # "str"

\* "for user_key, user_data in user_results.items()": raises on the first record it
\* reaches that cannot be read; a matching record before it ends the loop
ItemsLoopRaises(user_results, name) ==
    \E i \in DOMAIN user_results :
        /\ RecordRaises(user_results[i][2])
        /\ \A j \in 1..(i - 1) :
              ~UserMatches(user_results[j][1], ReadableRecord(user_results[j][2]), name)

\* the entry as the loops read it once nothing raised: its date if that is a non-empty
\* str, its results with the records readable
ReadableEntry(entry) ==
    IF entry.type # "dict" THEN << >>
    ELSE LET date == Get(entry.val, "date", PyNone)
             results == Get(entry.val, "results", PyDict(<< >>))
             items == IF results.type = "dict" THEN results.val ELSE << >>
             readable == [i \in DOMAIN items |->
                             << items[i][1], ReadableRecord(items[i][2]) >>]
         IN  IF date.type = "str" /\ Truthy(date)
             THEN [date |-> date.val, results |-> readable]
             ELSE [results |-> readable]

ReadableHistory(hist) == [k \in DOMAIN hist |-> ReadableEntry(hist[k])]

\* one iteration of the weekly loops raises: entry.get on a non-dict, a truthy date
\* that is not a str compared with week_start, results without items(), or a record
\* that cannot be read; one of the two branches runs for every dated entry
WeeklyEntryRaises(entry, name) ==
    \/ entry.type # "dict"
    \/ /\ entry.type = "dict"
       /\ LET date == Get(entry.val, "date", PyNone)
              results == Get(entry.val, "results", PyDict(<< >>))
          IN  /\ Truthy(date)
              /\ \/ date.type # "str"
                 \/ results.type # "dict"
                 \/ results.type = "dict" /\ ItemsLoopRaises(results.val, name)

\* the value the scan kept and the arithmetic reads: None when no baseline was found
ScanBaseline(scan) ==
    IF scan.start # None THEN scan.start[2]
    ELSE IF scan.earliest # None THEN scan.earliest[2]
    ELSE None

\* the try block of calculate_weekly_xp
WeeklyBody(name, cur, hist, today) ==
    LET loaded == HistoryOrDefault(hist)
    IN  IF loaded.raised THEN Raised
        ELSE IF loaded.value = << >> THEN Returned(0)
        ELSE IF \E k \in DOMAIN loaded.value : WeeklyEntryRaises(loaded.value[k], name)
        THEN Raised
        ELSE LET scan == WeekScan(ReadableHistory(loaded.value), name, WeekStart(today),
                                  "total_xp", PyInt(0))
                 baseline == ScanBaseline(scan)
             IN  IF baseline = None THEN Returned(0)
                 ELSE IF baseline.type # "int" \/ cur.type # "int" THEN Raised
                 ELSE Returned(WeeklyFromScan(
                         [start |-> IF scan.start # None
                                    THEN << scan.start[1], scan.start[2].val >> ELSE None,
                          earliest |-> IF scan.earliest # None
                                       THEN << scan.earliest[1], scan.earliest[2].val >>
                                       ELSE None],
                         cur.val))

\* the per-language subtraction loop raises: the baseline has no get (not a dict), a
\* language's baseline data has no get, or an xp is not a number
LanguageLoopRaises(current_progress, baseline_languages) ==
    /\ DOMAIN current_progress # {}
    /\ \/ baseline_languages.type # "dict"
       \/ /\ baseline_languages.type = "dict"
          /\ \E lang \in DOMAIN current_progress \cap DOMAIN baseline_languages.val :
                LET lang_data == baseline_languages.val[lang]
                IN  \/ lang_data.type # "dict"
                    \/ /\ lang_data.type = "dict"
                       /\ "xp" \in DOMAIN lang_data.val
                       /\ lang_data.val.xp.type # "int"

\* the baseline xp the subtraction loop reads for the current languages, once known
\* readable: baseline_languages.get(lang, {}).get("xp", 0)
ReadableLanguages(current_progress, baseline_languages) ==
    [lang \in DOMAIN current_progress \cap DOMAIN baseline_languages.val |->
        [xp |-> Get(baseline_languages.val[lang].val, "xp", PyInt(0)).val]]

\* the try block of calculate_weekly_xp_per_language
WeeklyPerLanguageBody(name, current_progress, hist, today) ==
    LET loaded == HistoryOrDefault(hist)
    IN  IF loaded.raised THEN Raised
        ELSE IF loaded.value = << >> THEN Returned(<< >>)
        ELSE IF \E k \in DOMAIN loaded.value : WeeklyEntryRaises(loaded.value[k], name)
        THEN Raised
        ELSE LET scan == WeekScan(ReadableHistory(loaded.value), name, WeekStart(today),
                                  "language_progress", PyDict(<< >>))
                 baseline_languages == ScanBaseline(scan)
             IN  IF current_progress.type # "dict" THEN Raised
                 ELSE IF baseline_languages = None \/ ~Truthy(baseline_languages)
                 THEN Returned(PerLanguageAgainst(current_progress.val, << >>))
                 ELSE IF LanguageLoopRaises(current_progress.val, baseline_languages)
                 THEN Raised
                 ELSE Returned(PerLanguageAgainst(current_progress.val,
                                                  ReadableLanguages(current_progress.val,
                                                                    baseline_languages)))

\* "for entry in reversed(history)" of the daily functions, from entry k down: the
\* index of the entry the baseline is read from (0: none), or Raised. The results of
\* an entry dated after yesterday are not read, and a matching record whose field is
\* None does not end the outer loop.
RECURSIVE DailyLoopFrom(_, _, _, _, _, _)
DailyLoopFrom(hist, k, name, yesterday, field, default) ==
    IF k = 0 THEN Returned(0)
    ELSE IF hist[k].type # "dict" THEN Raised
    ELSE LET date == Get(hist[k].val, "date", PyNone)
             results == Get(hist[k].val, "results", PyDict(<< >>))
             items == ReadableEntry(hist[k]).results
             i == FirstMatch(items, name)
         IN  IF ~Truthy(date) THEN DailyLoopFrom(hist, k - 1, name, yesterday, field, default)
             ELSE IF date.type # "str" THEN Raised
             ELSE IF ~DateLE(date.val, yesterday)
             THEN DailyLoopFrom(hist, k - 1, name, yesterday, field, default)
             ELSE IF results.type # "dict" THEN Raised
             ELSE IF ItemsLoopRaises(results.val, name) THEN Raised
             ELSE IF i # 0 /\ Get(items[i][2], field, default).type # "NoneType"
             THEN Returned(k)
             ELSE DailyLoopFrom(hist, k - 1, name, yesterday, field, default)

\* the try block of calculate_daily_xp
DailyBody(name, cur, hist, today) ==
    LET loaded == HistoryOrDefault(hist)
    IN  IF loaded.raised THEN Raised
        ELSE IF loaded.value = << >> THEN Returned(0)
        ELSE LET found == DailyLoopFrom(loaded.value, Len(loaded.value), name,
                                        Yesterday(today), "total_xp", PyInt(0))
             IN  IF found.raised THEN Raised
                 ELSE IF found.value = 0 THEN Returned(0)
                 ELSE LET yesterday_xp ==
                              Get(MatchedRecord(ReadableHistory(loaded.value),
                                                found.value, name),
                                  "total_xp", PyInt(0))
                      IN  IF yesterday_xp.type # "int" \/ cur.type # "int" THEN Raised
                          ELSE Returned(Max(0, cur.val - yesterday_xp.val))

\* the try block of calculate_daily_xp_per_language
DailyPerLanguageBody(name, current_progress, hist, today) ==
    LET loaded == HistoryOrDefault(hist)
    IN  IF loaded.raised THEN Raised
        ELSE IF loaded.value = << >> THEN Returned(<< >>)
        ELSE LET found == DailyLoopFrom(loaded.value, Len(loaded.value), name,
                                        Yesterday(today), "language_progress",
                                        PyDict(<< >>))
             IN  IF found.raised \/ current_progress.type # "dict" THEN Raised
                 ELSE IF found.value = 0
                 THEN Returned([lang \in DOMAIN current_progress.val |-> 0])
                 ELSE LET yesterday_languages ==
                              Get(MatchedRecord(ReadableHistory(loaded.value),
                                                found.value, name),
                                  "language_progress", PyDict(<< >>))
                      IN  IF ~Truthy(yesterday_languages)
                          THEN Returned([lang \in DOMAIN current_progress.val |-> 0])
                          ELSE IF LanguageLoopRaises(current_progress.val, yesterday_languages)
                          THEN Raised
                          ELSE Returned(
                                 [lang \in DOMAIN current_progress.val |->
                                    Max(0, Get(current_progress.val[lang], "xp", 0)
                                           - Get(Get(ReadableLanguages(current_progress.val,
                                                                       yesterday_languages),
                                                     lang, << >>), "xp", 0))])

\* the record of one call of the four delta functions: what each returned, and in
\* failed the functions whose try block raised
OutcomeOf(bodies, results) ==
    [raised |-> \E f \in DOMAIN results : results[f].raised,
     failed |-> { f \in DOMAIN bodies : bodies[f].raised },
     weekly_xp_per_language |-> results.weekly_xp_per_language.value,
     daily_xp_per_language |-> results.daily_xp_per_language.value,
     weekly_xp |-> results.weekly_xp.value,
     daily_xp |-> results.daily_xp.value]

\* the four delta functions, each its try block under "except Exception"
DeltasOf(bodies) ==
    OutcomeOf(bodies,
              [weekly_xp_per_language |-> TryExcept(bodies.weekly_xp_per_language, << >>),
               daily_xp_per_language |-> TryExcept(bodies.daily_xp_per_language, << >>),
               weekly_xp |-> TryExcept(bodies.weekly_xp, 0),
               daily_xp |-> TryExcept(bodies.daily_xp, 0)])

\* the try blocks of the four delta functions on one input
BodiesOf(name, cur, current_progress, hist, today) ==
    [weekly_xp_per_language |-> WeeklyPerLanguageBody(name, current_progress, hist, today),
     daily_xp_per_language |-> DailyPerLanguageBody(name, current_progress, hist, today),
     weekly_xp |-> WeeklyBody(name, cur, hist, today),
     daily_xp |-> DailyBody(name, cur, hist, today)]

\* get_user_progress computing the four deltas from a history of any shape
GetUserProgressAnyHistory ==
    /\ pc = "ready"
    /\ outcome' = DeltasOf(BodiesOf(username, current_total_xp, current_language_progress,
                                    history, DayOf(clock)))
    /\ pc' = "done"
    /\ UNCHANGED << clock, history, username, current_total_xp,
                    current_language_progress, reference, storeVars, sideVars >>

\* the decoded records of the model: a well-formed one and the malformed ones (a
\* non-object, a username that is not a string, missing keys, a total_xp that is not
\* a number, a language_progress that is a list, a language that is not an object,
\* an xp that is not a number)
RawLanguages(xp) ==
    PyDict([lang \in { "Spanish" } |->
              PyDict([xp |-> PyInt(xp), from_language |-> PyStr(<< "e", "n" >>),
                      learning_language |-> PyStr(<< "e", "s" >>)])])

RawRecord(name) ==
    PyDict([username |-> PyStr(name), total_xp |-> PyInt(1),
            language_progress |-> RawLanguages(1)])

MalformedRecords(name) ==
    { PyStr(<< "?" >>),
      PyDict([username |-> PyNone, total_xp |-> PyInt(1),
              language_progress |-> RawLanguages(1)]),
      PyDict([username |-> PyStr(name)]),
      PyDict([username |-> PyStr(name), total_xp |-> PyStr(<< "?" >>),
              language_progress |-> RawLanguages(1)]),
      PyDict([username |-> PyStr(name), total_xp |-> PyInt(1),
              language_progress |-> PyList(<< PyInt(1) >>)]),
      PyDict([username |-> PyStr(name), total_xp |-> PyInt(1),
              language_progress |-> PyDict([lang \in { "Spanish" } |-> PyInt(1)])]),
      PyDict([username |-> PyStr(name), total_xp |-> PyInt(1),
              language_progress |->
                  PyDict([lang \in { "Spanish" } |-> PyDict([xp |-> PyStr(<< "?" >>)])])]) }

\* the results of an entry: records of two accounts in either order, at most one of
\* them malformed
WellFormedItems ==
    { << << Ann, RawRecord(Ann) >>, << Bob, RawRecord(Bob) >> >>,
      << << Bob, RawRecord(Bob) >>, << Ann, RawRecord(Ann) >> >> }

MalformedItemsOf(a, b) ==
    UNION { { << << a, r >>, << b, RawRecord(b) >> >>,
              << << b, RawRecord(b) >>, << a, r >> >> } : r \in MalformedRecords(a) }

MalformedItems == MalformedItemsOf(Ann, Bob) \cup MalformedItemsOf(Bob, Ann)

RawEntry(d, items) == PyDict([date |-> PyStr(FormatDate(d)), results |-> PyDict(items)])

\* the entries of day d: well-formed, and the malformed ones (a record malformed, a
\* non-object, no date, a null date, a number as date, no results, null results)
WellFormedEntries(d) == { RawEntry(d, items) : items \in WellFormedItems }

MalformedEntries(d) ==
    { RawEntry(d, items) : items \in MalformedItems }
    \cup { PyStr(<< "?" >>) }
    \cup UNION { { PyDict([results |-> PyDict(items)]),
                   PyDict([date |-> PyNone, results |-> PyDict(items)]),
                   PyDict([date |-> PyInt(20240101), results |-> PyDict(items)]),
                   PyDict([date |-> PyStr(FormatDate(d))]),
                   PyDict([date |-> PyStr(FormatDate(d)), results |-> PyNone]) } :
                 items \in WellFormedItems }

\* histories of up to MaxLen entries on ascending days, at most one entry malformed
RawHistories ==
    UNION { UNION { { [i \in 1..n |-> RawEntry(ds[i], items[i])] :
                        items \in [1..n -> WellFormedItems] }
                    \cup UNION { { [i \in 1..n |-> IF i = m THEN bad
                                                    ELSE RawEntry(ds[i], items[i])] :
                                     items \in [1..n -> WellFormedItems],
                                     bad \in MalformedEntries(ds[m]) } :
                                 m \in 1..n } :
                    ds \in AscendingDays(n) } :
            n \in 0..MaxLen }

\* history=None: the default store is loaded, which fails or gives a history
NoHistoryGiven ==
    { [type |-> "NoneType", load_fails |-> TRUE, default |-> << >>] }
    \cup { [type |-> "NoneType", load_fails |-> FALSE, default |-> h] :
             h \in { << >> } \cup { << e >> : e \in WellFormedEntries(6) } }

InitAnyHistory ==
    /\ clock \in { d * TicksPerDay : d \in ClockDays }
    /\ history \in { PyList(h) : h \in RawHistories } \cup NoHistoryGiven
    /\ username \in { Ann, Bob }
    /\ current_total_xp \in { PyInt(xp) : xp \in 1..MaxXP } \cup { PyNone }
    /\ current_language_progress \in
          { PyDict([lang \in { "Spanish" } |-> LanguageProgress(lang, MaxXP)]), PyNone }
    /\ reference = None
    /\ outcome = NoOutcome
    /\ pc = "ready"
    /\ backend = "json"
    /\ EmptyStore
    /\ patched = FALSE

SpecAnyHistory == InitAnyHistory /\ [][GetUserProgressAnyHistory]_vars

\* C13: the four delta functions never raise: on every history (entries with missing
\* keys or wrong types included), every current value, and when loading the default
\* store fails, calculate_weekly_xp and calculate_daily_xp return an integer, 0 when
\* their try block failed, and the per-language functions return a mapping, empty
\* when their try block failed.
C13_NeverRaises ==
    pc = "done" =>
        /\ ~outcome.raised
        /\ outcome.weekly_xp \in Nat
        /\ outcome.daily_xp \in Nat
        /\ \A f \in { "weekly_xp_per_language", "daily_xp_per_language" } :
              /\ DOMAIN outcome[f] \subseteq Langs
              /\ \A lang \in DOMAIN outcome[f] : outcome[f][lang] \in Nat
              /\ f \in outcome.failed => outcome[f] = << >>
        /\ \A f \in { "weekly_xp", "daily_xp" } : f \in outcome.failed => outcome[f] = 0

\* C13 witness: a given history with a malformed entry makes the four try blocks fail,
\* and the caller gets 0 and the empty mapping
C13_Witness ==
    /\ pc = "done"
    /\ history.type = "list"
    /\ current_total_xp.type = "int"
    /\ current_language_progress.type = "dict"
    /\ outcome.failed = { "weekly_xp", "daily_xp", "weekly_xp_per_language",
                          "daily_xp_per_language" }
    /\ ~outcome.raised
    /\ outcome.weekly_xp = 0
    /\ outcome.daily_xp = 0
    /\ outcome.weekly_xp_per_language = << >>
    /\ outcome.daily_xp_per_language = << >>

\* the given history is a list of dated entries in which the records of the account
\* name are well-formed and a record of another account is not
OnlyOthersMalformed(name) ==
    /\ history.type = "list"
    /\ \A k \in DOMAIN history.val :
          /\ history.val[k].type = "dict"
          /\ DOMAIN history.val[k].val = { "date", "results" }
          /\ history.val[k].val.date.type = "str"
          /\ history.val[k].val.results.type = "dict"
          /\ \A i \in DOMAIN history.val[k].val.results.val :
                history.val[k].val.results.val[i][1] = name
                    => history.val[k].val.results.val[i][2] = RawRecord(name)
    /\ \E k \in DOMAIN history.val : \E i \in DOMAIN history.val[k].val.results.val :
          history.val[k].val.results.val[i][2]
              # RawRecord(history.val[k].val.results.val[i][1])

\* the history with the malformed records removed
WithoutMalformedRecords(hist) ==
    [k \in DOMAIN hist |->
        [hist[k] EXCEPT !.val.results.val =
            SelectSeq(hist[k].val.results.val, LAMBDA kv : kv[2] = RawRecord(kv[1]))]]

\* C14: a malformed record of one account in a history entry only zeroes the result
\* of that account: for another account whose own records are well-formed, the weekly
\* and daily deltas equal those computed from the same history with the malformed
\* record removed.
C14_MalformedRecordIsLocal ==
    (/\ pc = "done"
     /\ current_total_xp.type = "int"
     /\ OnlyOthersMalformed(username))
    => /\ outcome.weekly_xp =
             TryExcept(WeeklyBody(username, current_total_xp,
                                  PyList(WithoutMalformedRecords(history.val)),
                                  DayOf(clock)), 0).value
       /\ outcome.daily_xp =
             TryExcept(DailyBody(username, current_total_xp,
                                 PyList(WithoutMalformedRecords(history.val)),
                                 DayOf(clock)), 0).value

----------------------------------------------------------------------------
(* Properties of the stores, checked under SpecStore *)

\* the history the store holds
StoredHistory ==
    IF backend = "json" THEN history_file
    ELSE IF backend = "sqlite" THEN SqliteLoadHistory
    ELSE gist_file.content

\* the positions of the entries of a date
EntriesOf(hist, date) == { i \in DOMAIN hist : hist[i].date = date }

\* the last two save_daily_data calls both ran wholly on calendar day d
TwoSavesOn(d) ==
    /\ Len(saves.calls) = 2
    /\ saves.calls[1].days = { d }
    /\ saves.calls[2].days = { d }

\* C3: on every backend, two save_daily_data calls in sequence on the same calendar
\* date, with results A and then A', leave exactly one history entry for that date,
\* and it holds A'.
C3_SameDayLastWriteWins ==
    \A d \in 0..DayOf(MaxClock) :
        TwoSavesOn(d) =>
            /\ Cardinality(EntriesOf(LoadedHistory, FormatDate(d))) = 1
            /\ \A i \in EntriesOf(LoadedHistory, FormatDate(d)) :
                  LoadedHistory[i].results = saves.calls[2].results

\* C3 witness: two saves with different results on the second day of a store that
\* already holds the first day's entry
C3_Witness ==
    \E d \in 1..DayOf(MaxClock) :
        /\ TwoSavesOn(d)
        /\ saves.calls[1].results # saves.calls[2].results
        /\ Len(LoadedHistory) = 2
        /\ LoadedHistory[2].date = FormatDate(d)
        /\ LoadedHistory[2].results = saves.calls[2].results

\* the last save_daily_data call that ended normally was made on day d
LastSaveOn(d) ==
    /\ saves.calls # << >>
    /\ saves.calls[Len(saves.calls)].days = { d }

\* C4: in every state reached from an empty store by save_daily_data calls, the clock
\* free to advance at any moment (between two clock reads of one call too), the stored
\* history holds at most one entry per date.
C4_OneEntryPerDate ==
    \A i, j \in DOMAIN StoredHistory :
        i # j => StoredHistory[i].date # StoredHistory[j].date

(***************************************************************************)
(* Properties of saves made on dates in any order, checked under           *)
(* SpecBackfill                                                            *)
(***************************************************************************)

\* C15: after any sequence of save_daily_data calls made on dates in any order (later
\* dates first included), each call made on one date, load_history of every backend
\* returns its entries in strictly ascending order of date.
C15_StrictlyAscending ==
    saves.dated =>
        \A i, j \in DOMAIN LoadedHistory :
            i < j => DateLT(LoadedHistory[i].date, LoadedHistory[j].date)

\* C15 witness: a save on a day after a save on a later day, both entries loaded
C15_Witness ==
    \E d, e \in 0..DayOf(MaxClock) :
        /\ d < e
        /\ Len(saves.calls) = 2
        /\ saves.calls[1].days = { e }
        /\ saves.calls[2].days = { d }
        /\ Len(LoadedHistory) >= 2
        /\ \E i \in DOMAIN LoadedHistory : LoadedHistory[i].date = FormatDate(d)
        /\ \E i \in DOMAIN LoadedHistory : LoadedHistory[i].date = FormatDate(e)

\* the entries of the other dates, in their order
OtherDates(hist, date) == SelectSeq(hist, LAMBDA h : h.date # date)

\* C17: a save_daily_data call made on date D leaves every history entry of another
\* date exactly as it was, and leaves exactly one entry for D.
C17_SaveTouchesOneDate ==
    [][saves'.n = saves.n + 1 =>
          \A d \in 0..DayOf(MaxClock) :
              saves'.calls[Len(saves'.calls)].days = { d } =>
                  /\ OtherDates(LoadedHistory', FormatDate(d))
                        = OtherDates(LoadedHistory, FormatDate(d))
                  /\ Cardinality(EntriesOf(LoadedHistory', FormatDate(d))) = 1]_vars

\* C17 witness: the third save is made on the day between the days of the two
\* entries the store holds, and all three entries are loaded
C17_Witness ==
    \E d \in 1..DayOf(MaxClock) - 1 :
        /\ saves.n = 3
        /\ LastSaveOn(d)
        /\ Len(LoadedHistory) = 3
        /\ LoadedHistory[2].date = FormatDate(d)
        /\ LoadedHistory[2].results = saves.calls[2].results

(***************************************************************************)
(* Properties of the reads of a store, checked under SpecWeek              *)
(***************************************************************************)

\* C16: on every backend, for a history of n entries, get_weekly_progress returns
\* exactly the last min(7, n) entries of load_history in the same ascending order
\* (the empty list when n = 0).
C16_WeeklyIsLastSeven ==
    (call.op = "get_weekly_progress" /\ ~call.raised) =>
        LET n == Len(LoadedHistory)
            m == IF n < 7 THEN n ELSE 7
        IN  call.value = [k \in 1..m |-> LoadedHistory[n - m + k]]

\* C16 witness: get_weekly_progress has returned seven of more than seven entries
C16_Witness ==
    /\ call.op = "get_weekly_progress"
    /\ ~call.raised
    /\ Len(LoadedHistory) > 7
    /\ Len(call.value) = 7
    /\ call.value[7] = LoadedHistory[Len(LoadedHistory)]
    /\ call.value[1] # LoadedHistory[1]

(***************************************************************************)
(* Properties of one GistStorage instance, checked under SpecGist          *)
(***************************************************************************)

GistReads == { "load_history", "get_weekly_progress" }

\* C18: when the gist cannot be fetched, load_history and get_weekly_progress raise
\* to the caller instead of returning an empty history, and the failed call leaves
\* the cache unset, so that the next read fetches again.
C18_UnreachableRaises ==
    (call.op \in GistReads /\ call.found = "unreachable") =>
        /\ call.raised
        /\ ~history_cache.set
        /\ GistRead(history_cache, gist_file, TRUE).fetched

\* C18 witness: load_history has failed on a gist that holds a saved entry
C18_Witness ==
    /\ call.op = "load_history"
    /\ call.found = "unreachable"
    /\ call.raised
    /\ gist_file.present
    /\ gist_file.content # << >>

\* C19: when the history file of the gist is absent or its content is not valid JSON,
\* load_history returns the empty history without raising, and a save_daily_data that
\* follows writes a history made of the new entry only.
C19_AbsentOrMalformedIsEmpty ==
    /\ (call.op = "load_history" /\ call.found \in { "absent", "malformed" }) =>
            /\ ~call.raised
            /\ history = << >>
    /\ (call.op = "save_daily_data" /\ call.found \in { "absent", "malformed" }) =>
            \/ call.raised /\ saves.n = 0
            \/ /\ ~call.raised
               /\ gist_file.present
               /\ gist_file.valid
               /\ Len(gist_file.content) = 1
               /\ gist_file.content[1].results = saves.calls[Len(saves.calls)].results
               /\ \E d \in saves.calls[Len(saves.calls)].days :
                     gist_file.content[1].date = FormatDate(d)

\* C19 witness: after an earlier read, a save has found content that is not JSON and
\* has written a history of one entry
C19_Witness ==
    /\ call.op = "save_daily_data"
    /\ call.found = "malformed"
    /\ ~call.raised
    /\ fetches >= 2
    /\ saves.n = 1
    /\ Len(gist_file.content) = 1
    /\ gist_file.valid

\* C20: once a call has fetched the remote document, whatever its content, the reads
\* of the later calls make no GET request until clear_cache is called or a save is
\* made; the first read after clear_cache makes exactly one.
C20_FetchedOnce ==
    [][/\ (call.op \in GistReads /\ ~call.raised) => fetches' = fetches
       /\ (call.op = "clear_cache" /\ call'.op \in GistReads \cup { "save_daily_data" }) =>
              fetches' = fetches + 1]_vars

\* C21: every mutating call invalidates the cache: after save_daily_data has finished,
\* normally or by raising because the remote update reported an error, the cache is
\* empty, so the next load_history fetches the remote document; and a cached history
\* never differs from the remote document.
C21_SaveInvalidatesCache ==
    /\ call.op = "save_daily_data" =>
            /\ ~history_cache.set
            /\ GistRead(history_cache, gist_file, TRUE).fetched
    /\ history_cache.set => history_cache.value = gist_file.content


(***************************************************************************)
(* The delta engine on an empty history, checked under Spec                *)
(***************************************************************************)

\* C26: with an empty history the weekly delta and the daily delta are 0 for every
\* current total, and the per-language weekly and daily results credit no language
\* with any XP.
C26_EmptyHistoryZero ==
    (pc = "done" /\ history = << >>) =>
        /\ outcome.weekly_xp = 0
        /\ outcome.daily_xp = 0
        /\ \A lang \in DOMAIN outcome.weekly_xp_per_language :
              outcome.weekly_xp_per_language[lang] = 0
        /\ \A lang \in DOMAIN outcome.daily_xp_per_language :
              outcome.daily_xp_per_language[lang] = 0

\* C26 witness: the deltas of an account with XP in a language, computed on an empty
\* history
C26_Witness ==
    /\ pc = "done"
    /\ history = << >>
    /\ current_total_xp > 0
    /\ current_language_progress # << >>
    /\ outcome.weekly_xp = 0
    /\ outcome.daily_xp = 0
    /\ outcome.weekly_xp_per_language = << >>
    /\ outcome.daily_xp_per_language = << >>


(***************************************************************************)
(* The derived fields stored in the history, checked under Spec            *)
(***************************************************************************)

\* values of the four derived fields a snapshot may have been stored with
StoredDerived ==
    { [weekly_xp |-> 1, weekly_xp_per_language |-> [l \in { "Spanish" } |-> 1],
       daily_xp |-> 1, daily_xp_per_language |-> [l \in { "Spanish" } |-> 1]],
      [weekly_xp |-> MaxXP, weekly_xp_per_language |-> [l \in Langs |-> MaxXP],
       daily_xp |-> 0, daily_xp_per_language |-> << >>] }

\* a record with its derived fields replaced; an error record has no totals
WithDerived(record, v) ==
    [field \in DOMAIN record |->
        IF field \in { "weekly_xp_per_language", "daily_xp_per_language" }
           \/ (field \in { "weekly_xp", "daily_xp" } /\ "error" \notin DOMAIN record)
        THEN v[field]
        ELSE record[field]]

\* the rewritings compared: every entry given the same stored values, or the first
\* entry and every second one after it given the largest values and the others the
\* values of a new record
StoredVariants(hist) ==
    { [k \in DOMAIN hist |-> v] : v \in StoredDerived }
        \cup { [k \in DOMAIN hist |->
                   IF k % 2 = 1
                   THEN [weekly_xp |-> MaxXP, weekly_xp_per_language |-> [l \in Langs |-> MaxXP],
                         daily_xp |-> MaxXP, daily_xp_per_language |-> [l \in Langs |-> MaxXP]]
                   ELSE [weekly_xp |-> 0, weekly_xp_per_language |-> << >>,
                         daily_xp |-> 0, daily_xp_per_language |-> << >>]] }

\* the history with the derived fields of the snapshots of entry k replaced by f[k]
Restored(hist, f) ==
    [k \in DOMAIN hist |->
        [hist[k] EXCEPT !.results =
            [i \in DOMAIN hist[k].results |->
                << hist[k].results[i][1], WithDerived(hist[k].results[i][2], f[k]) >>]]]

\* C23: the derived fields stored in the history are never read as authoritative: on
\* two histories that differ only in the stored weekly_xp, weekly_xp_per_language,
\* daily_xp or daily_xp_per_language of any snapshots, the four delta functions
\* return the same results for the account, the current values and the date.
C23_DerivedFieldsNotRead ==
    pc = "done" =>
        \A f \in StoredVariants(history) :
            LET other == Restored(history, f)
            IN  /\ outcome.weekly_xp =
                      calculate_weekly_xp(username, current_total_xp, other, Today)
                /\ outcome.daily_xp =
                      calculate_daily_xp(username, current_total_xp, other, Today)
                /\ outcome.weekly_xp_per_language =
                      calculate_weekly_xp_per_language(username, current_language_progress,
                                                       other, Today)
                /\ outcome.daily_xp_per_language =
                      calculate_daily_xp_per_language(username, current_language_progress,
                                                      other, Today)

\* C23 witness: positive weekly and daily deltas computed against a snapshot, on a
\* history that has variants with other stored derived values
C23_Witness ==
    /\ pc = "done"
    /\ outcome.weekly_xp > 0
    /\ outcome.daily_xp > 0
    /\ \E k \in DOMAIN history :
          /\ HoldsSnapshot(history[k], username)
          /\ \E f \in StoredVariants(history) :
                AccountRecord(Restored(history, f)[k], username).weekly_xp
                    # AccountRecord(history[k], username).weekly_xp


(***************************************************************************)
(* Properties of one SQLiteStorage instance, checked under SpecSqlite      *)
(***************************************************************************)

\* C28: SQLiteStorage.save_daily_data is all-or-nothing: a call that raises while
\* inserting the rows of an account leaves the database exactly as it was (no snapshot
\* row added or replaced, no child rows added), so load_history returns the previous
\* history.
C28_SaveAllOrNothing ==
    [][(backend = "sqlite" /\ call'.op = "save_daily_data" /\ call'.raised) =>
          /\ daily_snapshots' = daily_snapshots
          /\ user_progress' = user_progress
          /\ language_progress' = language_progress
          /\ sqlite_sequence' = sqlite_sequence
          /\ LoadedHistory' = LoadedHistory]_vars

\* C28 witness: a save has raised on a database that holds an entry
C28_Witness ==
    /\ backend = "sqlite"
    /\ call.op = "save_daily_data"
    /\ call.raised
    /\ saves.n > 0
    /\ Len(LoadedHistory) > 0
    /\ Cardinality(user_progress) > 0

\* the (entry, account) and (entry, account, language) records of a history
RECURSIVE AccountRecords(_)
AccountRecords(hist) ==
    IF hist = << >> THEN 0
    ELSE Len(hist[1].results) + AccountRecords(Tail(hist))

RECURSIVE LanguageRecords(_)
LanguageRecords(hist) ==
    IF hist = << >> THEN 0
    ELSE Len(LanguagePairs(hist[1].results, 1)) + LanguageRecords(Tail(hist))

\* C29: in every state of the SQLite backend reached by save_daily_data (repeated
\* saves on one date included) and cleanup_old_data, every user_progress row refers to
\* an existing daily_snapshots row and every language_progress row to an existing
\* user_progress row, so the counts get_database_stats reports are the numbers of
\* (entry, account) and (entry, account, language) records of load_history.
C29_NoOrphanRows ==
    /\ \A r \in user_progress : \E s \in daily_snapshots : s.id = r.snapshot_id
    /\ \A l \in language_progress : \E r \in user_progress : r.id = l.user_progress_id
    /\ call.op = "get_database_stats" =>
          /\ call.value.daily_snapshots = Len(LoadedHistory)
          /\ call.value.user_progress_entries = AccountRecords(LoadedHistory)
          /\ call.value.language_progress_entries = LanguageRecords(LoadedHistory)

----------------------------------------------------------------------------
(* The three backends side by side: the same calls made on a store of each kind *)

\* DataStorage.save_daily_data at one instant: the daily file, then update_history
JsonSaveAt(results, instant) ==
    LET today == FormatDate(DayOf(instant))
        daily_data == [date |-> today, timestamp |-> instant, results |-> results]
    IN  /\ daily_files' = [d \in DOMAIN daily_files \cup { today } |->
                              IF d = today THEN daily_data ELSE daily_files[d]]
        /\ history_file' = UpdateHistory(history_file, results, instant, instant, instant)

\* SQLiteStorage.save_daily_data at one instant
SqliteSaveAt(results, instant) ==
    WriteDatabase(SqliteCommitted(Database(daily_snapshots, user_progress,
                                           language_progress, sqlite_sequence),
                                  results, FormatDate(DayOf(instant)), instant))

\* GistStorage.save_daily_data at one instant, the gist reachable for the read and
\* for the update
GistSaveAt(results, instant) ==
    LET today == FormatDate(DayOf(instant))
        read == GistRead(history_cache, gist_file, TRUE)
        entry == [date |-> today, timestamp |-> instant, results |-> results]
    IN  /\ gist_file' = [present |-> TRUE, valid |-> TRUE,
                         content |-> SortedByDate(Append(WithoutDate(read.value, today),
                                                         entry))]
        /\ history_cache' = NoCache
        /\ fetches' = IF read.fetched THEN fetches + 1 ELSE fetches

\* StorageInterface.save_daily_data called with the same results on a store of each
\* kind, every datetime.now() of the three calls returning the same instant
SaveOnEachBackend ==
    /\ backend = "all"
    /\ patched
    /\ saves.n < MaxSaves
    /\ \E results \in StoreResults :
          /\ JsonSaveAt(results, clock)
          /\ SqliteSaveAt(results, clock)
          /\ GistSaveAt(results, clock)
          /\ saves' = Saved({ DayOf(clock) }, results)
    /\ call' = Call("save_daily_data", FALSE, "local", << >>)
    /\ UNCHANGED << clock, deltaVars, sideVars, backend, patched >>

\* a store of each kind after the same n earlier saves, one a day; the gist of a
\* store nothing was saved to may hold no file, a file that is not JSON or an empty
\* history
InitContract ==
    /\ backend = "all"
    /\ patched = TRUE
    /\ \E n \in 0..MaxStored :
          LET days == DaysSaved(n, FALSE)
              db == DatabaseAfter(days)
          IN  /\ clock \in { d * TicksPerDay : d \in 0..DayOf(MaxClock) }
              /\ history_file = HistoryAfter(days)
              /\ daily_files = DailyFilesAfter(days)
              /\ daily_snapshots = db.daily_snapshots
              /\ user_progress = db.user_progress
              /\ language_progress = db.language_progress
              /\ sqlite_sequence = db.sqlite_sequence
              /\ gist_file \in
                    IF n > 0
                    THEN { [present |-> TRUE, valid |-> TRUE, content |-> HistoryAfter(days)] }
                    ELSE RemoteFiles
    /\ history_cache = NoCache
    /\ fetches = 0
    /\ call = Call("none", FALSE, "none", << >>)
    /\ saves = [n |-> 0, dated |-> TRUE, calls |-> << >>]
    /\ Idle
    /\ history = << >>
    /\ username = Ann
    /\ current_total_xp = 0
    /\ current_language_progress = << >>
    /\ reference = None
    /\ outcome = [raised |-> FALSE, weekly_xp |-> 0, weekly_xp_per_language |-> << >>,
                  daily_xp |-> 0, daily_xp_per_language |-> << >>]
    /\ pc = "ready"

NextContract ==
    \/ SaveOnEachBackend
    \/ SetClock

SpecContract == InitContract /\ [][NextContract]_vars

----------------------------------------------------------------------------
(* Runs of the tracker: the deltas from the stored history, then the day's save *)

\* one run on the flat-file store: load_history, get_user_progress on a fetched
\* account whose total XP is not below the one of the run before, then
\* save_daily_data of the record it returned; the run is short, every datetime.now()
\* of it returns the same instant
Run ==
    /\ backend = "json"
    /\ saves.n < MaxSaves
    /\ \E fetched \in { r \in Snapshots : r.total_xp >= current_total_xp } :
          LET loaded == JsonLoadHistory
              deltas ==
                  [raised |-> FALSE,
                   weekly_xp_per_language |->
                       calculate_weekly_xp_per_language(username, fetched.language_progress,
                                                        loaded, DayOf(clock)),
                   daily_xp_per_language |->
                       calculate_daily_xp_per_language(username, fetched.language_progress,
                                                       loaded, DayOf(clock)),
                   weekly_xp |->
                       calculate_weekly_xp(username, fetched.total_xp, loaded, DayOf(clock)),
                   daily_xp |->
                       calculate_daily_xp(username, fetched.total_xp, loaded, DayOf(clock))]
              record == [fetched EXCEPT
                            !.weekly_xp = deltas.weekly_xp,
                            !.weekly_xp_per_language = deltas.weekly_xp_per_language,
                            !.daily_xp = deltas.daily_xp,
                            !.daily_xp_per_language = deltas.daily_xp_per_language]
              results == << << username, record >> >>
          IN  /\ history' = loaded
              /\ current_total_xp' = fetched.total_xp
              /\ current_language_progress' = fetched.language_progress
              /\ outcome' = deltas
              /\ JsonSaveAt(results, clock)
              /\ saves' = Saved({ DayOf(clock) }, results)
    /\ call' = Call("run", FALSE, "local", << >>)
    /\ UNCHANGED << clock, username, reference, pc, sideVars, backend, patched, daily_snapshots,
                    user_progress, language_progress, sqlite_sequence, gist_file,
                    history_cache, fetches >>

\* the first runs of an account on an empty flat-file store, all in the week of
\* Monday 2023-12-25
InitRuns ==
    /\ InitStore
    /\ backend = "json"

NextRuns ==
    \/ Run
    \/ Tick

SpecRuns == InitRuns /\ [][NextRuns]_vars

\* C27: across the runs inside one calendar week, each computing the weekly XP from
\* the stored history and then saving the day's snapshot, the weekly XP of an account
\* whose total XP never decreases does not decrease from one run to the next
C27_WeeklyNeverDecreases ==
    [][(call.op = "run" /\ call'.op = "run") => outcome'.weekly_xp >= outcome.weekly_xp]_vars


----------------------------------------------------------------------------
(* StorageMigrator: flat-file history to SQLite and back *)

\* f"{entry_date}T00:00:00"
MidnightOf(date) == DayNumber(date) * TicksPerDay

\* one iteration of json_to_sqlite's loop: save_daily_data under a datetime patched to
\* the entry's date and timestamp; an entry whose save raises is skipped
MigrateEntry(db, entry, now) ==
    SqliteCommitted(db, entry.results, entry.date,
                    Get(entry, "timestamp", MidnightOf(entry.date)))

RECURSIVE MigrateFrom(_, _, _, _)
MigrateFrom(db, hist, k, now) ==
    IF k > Len(hist) THEN db
    ELSE MigrateFrom(MigrateEntry(db, hist[k], now), hist, k + 1, now)

\* the entries of the history whose save does not raise
MigratedCount(hist) ==
    Cardinality({ k \in DOMAIN hist : FirstRaising(hist[k].results) = 0 })

\* StorageMigrator.json_to_sqlite into a new database: nothing is done for an empty
\* history
JsonToSqlite ==
    /\ backend = "json"
    /\ daily_snapshots = {}
    /\ sqlite_sequence = [daily_snapshots |-> 0, user_progress |-> 0, language_progress |-> 0]
    /\ LET loaded == JsonLoadHistory
       IN  /\ WriteDatabase(MigrateFrom(Database(daily_snapshots, user_progress,
                                                 language_progress, sqlite_sequence),
                                        loaded, 1, clock))
           /\ exported' = [exported EXCEPT !.migrated = loaded, !.done = TRUE]
           /\ call' = Call("json_to_sqlite", FALSE, "local", MigratedCount(loaded))
    /\ UNCHANGED << clock, deltaVars, request, pool, backend, patched, history_file,
                    daily_files, gist_file, history_cache, fetches, saves >>

\* the daily_<date>.json files sqlite_to_json writes
ExportedDailyFiles(hist) ==
    [date \in { hist[k].date : k \in DOMAIN hist } |->
        LET entry == hist[CHOOSE k \in DOMAIN hist : hist[k].date = date]
        IN  [date |-> entry.date, timestamp |-> entry.timestamp, results |-> entry.results]]

\* StorageMigrator.sqlite_to_json into the export directory: nothing is written for an
\* empty database
SqliteToJson ==
    /\ backend = "json"
    /\ LET loaded == SqliteLoadHistory
       IN  /\ exported' = IF loaded = << >> THEN exported
                          ELSE [exported EXCEPT
                                   !.history = loaded,
                                   !.daily_files = ExportedDailyFiles(loaded)]
           /\ call' = Call("sqlite_to_json", FALSE, "local", Len(loaded))
    /\ UNCHANGED << clock, deltaVars, request, pool, backend, patched, history_file,
                    daily_files, daily_snapshots, user_progress, language_progress,
                    sqlite_sequence, gist_file, history_cache, fetches, saves >>

\* the default of check_last_n_days
check_last_n_days == 30

\* hist[-n:]
LastDays(hist, n) == SubSeq(hist, Max(1, Len(hist) - n + 1), Len(hist))

\* set(results.keys())
Keys(results) == { results[i][1] : i \in DOMAIN results }

\* results[username]
RecordOf(results, key) == results[CHOOSE i \in DOMAIN results : results[i][1] = key][2]

core_fields == { "streak", "total_xp", "weekly_xp" }

\* one iteration of validate_migration's loop finds a mismatch
EntryMismatch(source_entry, target_entry) ==
    \/ source_entry.date # target_entry.date
    \/ Keys(source_entry.results) # Keys(target_entry.results)
    \/ \E key \in Keys(source_entry.results) :
          LET source_user == RecordOf(source_entry.results, key)
              target_user == RecordOf(target_entry.results, key)
          IN  /\ "error" \notin DOMAIN source_user
              /\ \E field \in core_fields :
                    Get(source_user, field, None) # Get(target_user, field, None)

\* what validate_migration returns for the two loaded histories
ValidationOf(source, target) ==
    LET source_history == LastDays(source, check_last_n_days)
        target_history == LastDays(target, check_last_n_days)
    IN  /\ Len(source_history) = Len(target_history)
        /\ \A k \in DOMAIN source_history :
              ~EntryMismatch(source_history[k], target_history[k])

\* StorageMigrator.validate_migration(DataStorage, SQLiteStorage)
ValidateMigration ==
    /\ backend = "json"
    /\ call' = Call("validate_migration", FALSE, "local",
                    ValidationOf(JsonLoadHistory, SqliteLoadHistory))
    /\ UNCHANGED << clock, deltaVars, sideVars, backend, patched, history_file,
                    daily_files, daily_snapshots, user_progress, language_progress,
                    sqlite_sequence, gist_file, history_cache, fetches, saves >>

\* a flat-file store written by save_daily_data calls, then migrated, exported and
\* validated
InitMigrate ==
    /\ InitStore
    /\ backend = "json"

NextMigrate ==
    \/ JsonSaveDailyData
    \/ Tick
    \/ JsonToSqlite
    \/ SqliteToJson
    \/ ValidateMigration

SpecMigrate == InitMigrate /\ [][NextMigrate]_vars

\* the total_xp, streak and per-language xp of every account of an entry
CoreOf(entry) ==
    [key \in Keys(entry.results) |->
        LET record == RecordOf(entry.results, key)
            languages == Get(record, "language_progress", << >>)
        IN  [total_xp |-> Get(record, "total_xp", None),
             streak |-> Get(record, "streak", None),
             xp |-> [l \in DOMAIN languages |-> languages[l].xp]]]

\* the flat-file history is the one json_to_sqlite migrated into the database
MigrationOfStore ==
    /\ exported.done
    /\ exported.migrated = history_file

\* C22: a flat-file history whose entries follow the persisted layout, migrated with
\* json_to_sqlite into an empty database and exported with sqlite_to_json, comes back
\* with the same number of entries in the same date order, every entry with the same
\* date and every account with the same total_xp, streak and per-language xp;
\* validate_migration returns true for the migration
C22_MigrationRoundTrip ==
    /\ (call.op = "sqlite_to_json" /\ MigrationOfStore) =>
            /\ Len(exported.history) = Len(exported.migrated)
            /\ \A k \in DOMAIN exported.migrated :
                  /\ exported.history[k].date = exported.migrated[k].date
                  /\ CoreOf(exported.history[k]) = CoreOf(exported.migrated[k])
    /\ (call.op = "validate_migration" /\ MigrationOfStore) => call.value = TRUE


----------------------------------------------------------------------------
(* make_api_request_with_retry *)

MaxRetries == 4
MaxBaseDelay == 2

\* what one requests.get followed by raise_for_status can do: return the response,
\* raise a requests.RequestException, or raise an exception of another class
RequestErrors == { "ConnectionError", "HTTPError" }
OtherErrors == { "ValueError" }
Outcomes == { "ok" } \cup RequestErrors \cup OtherErrors

RECURSIVE Pow2(_)
Pow2(n) == IF n = 0 THEN 1 ELSE 2 * Pow2(n - 1)

\* faulty variant: the same delay before every retry
BackoffConstant(base_delay, attempt) == base_delay

\* delay = base_delay * (2**attempt)
Backoff(base_delay, attempt) == base_delay * Pow2(attempt)

\* one iteration of "for attempt in range(max_retries)" up to the return, the raise or
\* the call of time.sleep: the response is returned, a RequestException of the last
\* attempt is re-raised, an exception of another class is not caught
Attempt ==
    /\ request.pc = "loop"
    /\ request.attempt < request.max_retries
    /\ \E answer \in Outcomes :
          LET event == [kind |-> "request", attempt |-> request.attempt, outcome |-> answer]
          IN  request' =
                 [request EXCEPT
                     !.events = Append(@, event),
                     !.pc = IF answer = "ok" THEN "returned"
                            ELSE IF answer \in OtherErrors THEN "raised"
                            ELSE IF request.attempt = request.max_retries - 1 THEN "raised"
                            ELSE "sleep",
                     !.result = IF answer = "ok" \/ answer \in OtherErrors
                                   \/ request.attempt = request.max_retries - 1
                                THEN event
                                ELSE @]
    /\ UNCHANGED << clock, deltaVars, storeVars, exported, pool >>

\* time.sleep(delay) of a failed attempt that is not the last, then the next iteration
Sleep ==
    /\ request.pc = "sleep"
    /\ request' =
          [request EXCEPT
              !.events = Append(@, [kind |-> "sleep",
                                    delay |-> Backoff(request.base_delay, request.attempt)]),
              !.attempt = @ + 1,
              !.pc = "loop"]
    /\ UNCHANGED << clock, deltaVars, storeVars, exported, pool >>

\* the loop ends without a return or a raise: raise
\* requests.RequestException("Max retries exceeded")
Exhausted ==
    /\ request.pc = "loop"
    /\ request.attempt >= request.max_retries
    /\ request' = [request EXCEPT
                      !.pc = "raised",
                      !.result = [kind |-> "exhausted", attempt |-> request.attempt,
                                  outcome |-> "RequestException"]]
    /\ UNCHANGED << clock, deltaVars, storeVars, exported, pool >>

\* make_api_request_with_retry(url, headers, max_retries, base_delay) is called
MakeApiRequestWithRetry ==
    /\ request.pc = "idle"
    /\ \E max_retries \in 0..MaxRetries, base_delay \in 0..MaxBaseDelay :
          request' = [request EXCEPT !.pc = "loop", !.max_retries = max_retries,
                                     !.base_delay = base_delay]
    /\ UNCHANGED << clock, deltaVars, storeVars, exported, pool >>

InitRetry ==
    /\ InitStore
    /\ backend = "json"

NextRetry ==
    \/ MakeApiRequestWithRetry
    \/ Attempt
    \/ Sleep
    \/ Exhausted

SpecRetry == InitRetry /\ [][NextRetry]_vars

\* the call is made, requests.get is called with a timeout and time.sleep returns
FairSpecRetry == SpecRetry /\ WF_vars(NextRetry)

\* the requests made and the waits, in order
RequestEvents == { i \in DOMAIN request.events : request.events[i].kind = "request" }
SleepEvents == { i \in DOMAIN request.events : request.events[i].kind = "sleep" }

\* what the claim states of the calls made so far
RetryAsStated ==
    LET events == request.events
        last == Len(events)
    IN  /\ Cardinality(RequestEvents) <= request.max_retries
        /\ \A i \in RequestEvents :
              /\ events[i].outcome = "ok" => i = last
              /\ (events[i].outcome \in RequestErrors /\ i < last) =>
                    /\ events[i + 1].kind = "sleep"
                    /\ events[i + 1].delay = request.base_delay * Pow2(events[i].attempt)
              /\ events[i].attempt = Cardinality({ j \in RequestEvents : j < i })
        /\ \A i \in SleepEvents :
              /\ i > 1
              /\ events[i - 1].kind = "request"
              /\ events[i - 1].outcome \in RequestErrors
              /\ events[i - 1].attempt < request.max_retries - 1
        /\ request.pc = "returned" =>
              /\ last > 0
              /\ events[last].kind = "request"
              /\ events[last].outcome = "ok"
              /\ request.result = events[last]
        /\ (request.pc = "raised" /\ Cardinality(RequestEvents) = request.max_retries
                /\ request.max_retries > 0) =>
              /\ events[last].kind = "request"
              /\ request.result = events[last]
        /\ (request.pc = "raised" /\ last > 0 /\ request.result.outcome \in RequestErrors) =>
              /\ Cardinality(RequestEvents) = request.max_retries
              /\ \A i \in RequestEvents : events[i].outcome \in RequestErrors

\* C30: make_api_request_with_retry terminates after at most max_retries attempts; it
\* returns the response of the first successful attempt without a further request,
\* waits base_delay * 2^k after the k-th failed attempt before the next one, never
\* waits after the final failed attempt and raises the last request error after
\* max_retries failures
C30_RetryTerminates ==
    /\ [](request.pc # "idle" => RetryAsStated)
    /\ <>(request.pc \in { "returned", "raised" })

\* every attempt failed: the waits were 1, 2 and 4 times the base delay and the error
\* of the last attempt was raised
C30_Witness ==
    /\ request.pc = "raised"
    /\ request.max_retries = MaxRetries
    /\ request.base_delay = MaxBaseDelay
    /\ Len(request.events) = 2 * MaxRetries - 1
    /\ request.result.outcome \in RequestErrors


----------------------------------------------------------------------------
(* check_all_family: the per-account fetches on the worker pool *)

MaxMembers == 6

\* ThreadPoolExecutor(max_workers=5)
max_workers == 5

Cid == << "c", "i", "d" >>
Dan == << "d", "a", "n" >>
Eve == << "e", "v", "e" >>
Fay == << "f", "a", "y" >>
Gus == << "g", "u", "s" >>
Hal == << "h", "a", "l" >>

\* config["family_members"] in its order: member name and username; two members may
\* track the same account
FamilyMembers ==
    << << Ann, Ann >>, << Bob, Bob >>, << Cid, Ann >>, << Dan, Dan >>, << Eve, Eve >>,
       << Fay, Fay >>, << Gus, Gus >>, << Hal, Hal >> >>

\* what a call of get_user_progress in a worker leaves in its future: a success
\* record, an error record, or an exception
FetchOutcomes == { "success", "error", "raised" }

\* the value or the exception of a finished future
FutureOf(username_, how) ==
    [state |-> how,
     value |-> IF how = "success" THEN UserProgress(username_, 1, << >>)
               ELSE IF how = "error" THEN UserProgressError(username_)
               ELSE << >>]

\* UserProgressError(username=users_to_check[member_name],
\*                   error=f"Processing failed: {str(e)}", ...)
ProcessingFailed(username_) ==
    [UserProgressError(username_) EXCEPT !.error = "Processing failed"]

\* faulty variant: a future that raised leaves no entry
ResultsAfterSkippingRaised(results, member_name, username_, future) ==
    IF future.state = "raised" THEN results
    ELSE [m \in DOMAIN results \cup { member_name } |->
             IF m = member_name THEN future.value ELSE results[m]]

\* one iteration of "for future in as_completed(future_to_member)":
\* results[member_name] is future.result(), or the error record of the except branch
ResultsAfter(results, member_name, username_, future) ==
    [m \in DOMAIN results \cup { member_name } |->
        IF m = member_name
        THEN IF future.state = "raised" THEN ProcessingFailed(username_)
             ELSE future.value
        ELSE results[m]]

\* check_all_family(config, history) is called: it returns {} at once without a
\* configuration or without members, else it submits one fetch per member
CheckAllFamily ==
    /\ pool.pc = "idle"
    /\ \E n \in 0..(IF MaxMembers < Len(FamilyMembers) THEN MaxMembers
                      ELSE Len(FamilyMembers)),
          configured \in BOOLEAN :
          pool' = IF ~configured \/ n = 0
                  THEN [pool EXCEPT !.pc = "returned"]
                  ELSE [pool EXCEPT
                           !.pc = "collecting",
                           !.members = SubSeq(FamilyMembers, 1, n),
                           !.futures = [i \in 1..n |-> [state |-> "queued", value |-> << >>]]]
    /\ UNCHANGED << clock, deltaVars, storeVars, exported, request >>

\* a free worker takes the next fetch of the queue
StartFetch ==
    /\ pool.pc = "collecting"
    /\ Cardinality({ i \in DOMAIN pool.futures : pool.futures[i].state = "running" })
          < max_workers
    /\ \E i \in DOMAIN pool.futures :
          /\ pool.futures[i].state = "queued"
          /\ \A j \in 1..(i - 1) : pool.futures[j].state # "queued"
          /\ pool' = [pool EXCEPT !.futures[i].state = "running"]
    /\ UNCHANGED << clock, deltaVars, storeVars, exported, request >>

\* get_user_progress ends in a worker
FinishFetch ==
    /\ pool.pc = "collecting"
    /\ \E i \in DOMAIN pool.futures, how \in FetchOutcomes :
          /\ pool.futures[i].state = "running"
          /\ pool' = [pool EXCEPT !.futures[i] = FutureOf(pool.members[i][2], how)]
    /\ UNCHANGED << clock, deltaVars, storeVars, exported, request >>

\* as_completed yields a finished future and the loop body stores its entry
Collect ==
    /\ pool.pc = "collecting"
    /\ \E i \in DOMAIN pool.futures \ pool.collected :
          /\ pool.futures[i].state \in FetchOutcomes
          /\ pool' = [pool EXCEPT
                         !.collected = @ \cup { i },
                         !.results = ResultsAfter(@, pool.members[i][1],
                                                  pool.members[i][2], pool.futures[i])]
    /\ UNCHANGED << clock, deltaVars, storeVars, exported, request >>

\* every future was yielded: the executor is shut down and results is returned
ReturnResults ==
    /\ pool.pc = "collecting"
    /\ pool.collected = DOMAIN pool.futures
    /\ pool' = [pool EXCEPT !.pc = "returned"]
    /\ UNCHANGED << clock, deltaVars, storeVars, exported, request >>

InitFamily ==
    /\ InitStore
    /\ backend = "json"

NextFamily ==
    \/ CheckAllFamily
    \/ StartFetch
    \/ FinishFetch
    \/ Collect
    \/ ReturnResults

SpecFamily == InitFamily /\ [][NextFamily]_vars

\* C25: with at least one tracked member, for every completion order and outcome of
\* the fetches, check_all_family returns exactly one entry per configured member; a
\* member whose fetch failed holds an error-shaped record and the record of a member
\* whose fetch succeeded is the one its fetch returned
C25_OneEntryPerMember ==
    (pool.pc = "returned" /\ pool.members # << >>) =>
        /\ DOMAIN pool.results = { pool.members[i][1] : i \in DOMAIN pool.members }
        /\ \A i \in DOMAIN pool.members :
              LET record == pool.results[pool.members[i][1]]
                  future == pool.futures[i]
              IN  /\ future.state = "success" => record = future.value
                  /\ future.state = "error" => record = future.value
                  /\ future.state # "success" =>
                        /\ "error" \in DOMAIN record
                        /\ record.username = pool.members[i][2]

\* more members than workers were checked and the three outcomes all happened
C25_Witness ==
    /\ pool.pc = "returned"
    /\ Len(pool.members) > max_workers
    /\ \A how \in FetchOutcomes :
          \E i \in DOMAIN pool.futures : pool.futures[i].state = how
    /\ pool.futures[1].state = "raised"
    /\ pool.futures[2].state = "success"

====
